---------------------------- MODULE Spec2Model ----------------------------
(***************************************************************************)
(* Diagonal Sudoku solver of AIND-Sudoku/solution.py: constraint           *)
(* propagation (eliminate, naked_twins, only_choice) to a stall, then      *)
(* depth-first search, with the module-global list `assignments` that      *)
(* assign_value appends grid snapshots to.                                 *)
(*                                                                         *)
(* Python objects are modelled with their identity: `heap` is the sequence *)
(* of all dicts ever created, a reference is an index into it, and         *)
(* `assignments` is a sequence of references.  A dict is a function from   *)
(* box labels to strings, a string is a sequence of one-character strings. *)
(*                                                                         *)
(* The board is instantiated with box side sq (the source fixes 3, i.e.    *)
(* S = '123456789'); every definition below is written for any sq, and the *)
(* digits and row letters are the first sq*sq characters of the source's.  *)
(***************************************************************************)
EXTENDS Integers, Sequences, FiniteSets, TLC

VARIABLES input, seed, heap, assignments, stack, ret, pc, writes, run, first,
          problem, state_TF, applied

\* the variables of the planning problem of AIND-Planning/my_air_cargo_problems.py
cargo_vars == <<problem, state_TF, applied>>

vars == <<input, seed, heap, assignments, stack, ret, pc, writes, run, first,
          problem, state_TF, applied>>

-----------------------------------------------------------------------------
(* Bounds of the model *)

\* side of a square unit; the board has sq*sq rows, columns and digits
sq == 2
\* an input grid has at most this many clues
MaxClues == 2
\* the clues of an input grid are among the first ClueDigits digits
ClueDigits == 2
\* number of distinct iteration orders of the peer sets (hash seeds) considered
HashSeeds == 2

\* the solved boxes of a grid are taken in every order when they are at most
\* this many
MaxPermuted == 3

-----------------------------------------------------------------------------
(* Strings *)

Range(f) == {f[i] : i \in DOMAIN f}

N == sq * sq

S == SubSeq(<<"1", "2", "3", "4", "5", "6", "7", "8", "9">>, 1, N)

ABCDEFGHI == SubSeq(<<"A", "B", "C", "D", "E", "F", "G", "H", "I">>, 1, N)

\* [s + t for s in a for t in b]
cross(a, b) ==
    [k \in 1..(Len(a) * Len(b)) |->
        a[((k - 1) \div Len(b)) + 1] \o b[((k - 1) % Len(b)) + 1]]

\* expression[::-1]
r_string(expression) ==
    [i \in 1..Len(expression) |-> expression[Len(expression) + 1 - i]]

\* (mutant) a digit that does not occur in the string is added to it
replace_toggle(str, old) ==
    IF Len(old) = 0 THEN str
    ELSE IF \E k \in DOMAIN str : str[k] = old[1]
         THEN SelectSeq(str, LAMBDA c : c # old[1])
         ELSE str \o old

\* str.replace(old, '') for old of length 0 or 1: every occurrence of the
\* character is dropped, and replacing the empty string by itself changes
\* nothing
replace(str, old) ==
    IF Len(old) = 0 THEN str ELSE SelectSeq(str, LAMBDA c : c # old[1])

\* list.count(x)
count(list, x) == Cardinality({i \in DOMAIN list : list[i] = x})

\* c in str, for a one-character c
contains(str, c) == \E i \in DOMAIN str : str[i] = c

-----------------------------------------------------------------------------
(* Constraint topology, lines 34-92 *)

rows == ABCDEFGHI

cols == S

boxes == cross(rows, cols)

row_units == [i \in 1..N |-> cross(<<rows[i]>>, cols)]

column_units == [j \in 1..N |-> cross(rows, <<cols[j]>>)]

square_units ==
    [k \in 1..N |->
        cross(SubSeq(rows, sq * ((k - 1) \div sq) + 1, sq * ((k - 1) \div sq) + sq),
              SubSeq(cols, sq * ((k - 1) % sq) + 1, sq * ((k - 1) % sq) + sq))]

\* (mutant) the main diagonal only
diagonals_main ==
    << [i \in 1..N |-> rows[i] \o cols[i]] >>

diagonals_u ==
    << [i \in 1..N |-> rows[i] \o cols[i]],
       [i \in 1..N |-> rows[i] \o r_string(cols)[i]] >>

unitlist == row_units \o column_units \o square_units \o diagonals_u

units == [s \in Range(boxes) |-> SelectSeq(unitlist, LAMBDA u : s \in Range(u))]

peers == [s \in Range(boxes) |-> (UNION {Range(u) : u \in Range(units[s])}) \ {s}]

\* position of a box in `boxes` (row-major); the order of its label as a string
BoxIndex(s) == CHOOSE k \in 1..Len(boxes) : boxes[k] = s


\* peers[s] is a Python set of strings: the order in which a `for` visits it
\* is fixed within a process and depends on the process's string hash seed.
\* The orders are those of CPython 3.11 for PYTHONHASHSEED = 0, 1, 2: for each
\* seed, list(peers[s]) for the boxes s in the order of `boxes`, as line 92
\* builds them, on the board of side 4 and on the board of side 9.
peers_iterated_4x4 ==
    <<
      \* PYTHONHASHSEED=0
      <<
         << "A4", "A3", "A2", "D1", "B1", "C1", "B2", "D4", "C3" >>,
         << "A4", "A1", "A3", "C2", "B1", "B2", "D2" >>,
         << "A4", "A1", "A2", "B3", "D3", "B4", "C3" >>,
         << "A1", "A3", "A2", "D1", "B3", "C2", "B4", "C4", "D4" >>,
         << "A1", "A2", "D1", "B3", "B4", "C1", "B2" >>,
         << "A1", "A2", "B3", "C2", "B4", "B1", "D2", "D4", "C3" >>,
         << "A4", "A3", "D1", "D3", "C2", "B4", "B1", "B2", "C3" >>,
         << "A4", "A3", "B3", "B1", "C4", "B2", "D4" >>,
         << "A1", "D1", "C2", "C4", "B1", "D2", "C3" >>,
         << "A4", "A2", "D1", "B3", "C4", "C1", "B2", "D2", "C3" >>,
         << "A1", "A3", "B3", "D3", "C2", "C4", "C1", "B2", "D4" >>,
         << "A4", "D3", "C2", "C1", "B4", "D4", "C3" >>,
         << "A4", "A1", "D3", "B3", "C2", "B1", "C1", "D2", "D4" >>,
         << "A2", "D1", "D3", "C2", "C1", "B2", "D4" >>,
         << "A3", "D1", "B3", "C4", "D2", "D4", "C3" >>,
         << "A4", "A1", "D1", "D3", "B4", "C4", "B2", "D2", "C3" >>
      >>,
      \* PYTHONHASHSEED=1
      <<
         << "D4", "A2", "C3", "A3", "B1", "C1", "D1", "B2", "A4" >>,
         << "A1", "C2", "A3", "B1", "D2", "B2", "A4" >>,
         << "D3", "A1", "B4", "A2", "B3", "C3", "A4" >>,
         << "D4", "A1", "C4", "B4", "A2", "B3", "C2", "A3", "D1" >>,
         << "A1", "B4", "A2", "B3", "C1", "D1", "B2" >>,
         << "D4", "A1", "B4", "A2", "B3", "C2", "C3", "B1", "D2" >>,
         << "D3", "B4", "C2", "C3", "A3", "B1", "D1", "B2", "A4" >>,
         << "D4", "C4", "B3", "A3", "B1", "B2", "A4" >>,
         << "A1", "C4", "C2", "C3", "B1", "D2", "D1" >>,
         << "C4", "A2", "B3", "C3", "C1", "D2", "D1", "B2", "A4" >>,
         << "D3", "D4", "A1", "C4", "C2", "B3", "A3", "C1", "B2" >>,
         << "D3", "D4", "B4", "C2", "C3", "C1", "A4" >>,
         << "D3", "D4", "A1", "C2", "B3", "B1", "C1", "D2", "A4" >>,
         << "D3", "D4", "A2", "C2", "C1", "D1", "B2" >>,
         << "D4", "C4", "B3", "C3", "A3", "D2", "D1" >>,
         << "D3", "A1", "C4", "B4", "C3", "D2", "D1", "B2", "A4" >>
      >>,
      \* PYTHONHASHSEED=2
      <<
         << "B1", "D1", "A3", "B2", "A2", "C3", "A4", "D4", "C1" >>,
         << "B1", "B2", "A3", "A4", "A1", "D2", "C2" >>,
         << "B3", "D3", "C3", "A2", "B4", "A4", "A1" >>,
         << "C4", "B3", "D1", "A3", "A2", "B4", "D4", "A1", "C2" >>,
         << "B3", "B2", "D1", "A2", "B4", "A1", "C1" >>,
         << "B1", "B3", "C3", "A2", "B4", "D4", "A1", "D2", "C2" >>,
         << "B1", "D3", "B2", "A3", "C3", "D1", "B4", "A4", "C2" >>,
         << "B1", "C4", "B3", "B2", "A3", "A4", "D4" >>,
         << "C4", "B1", "C3", "D1", "A1", "D2", "C2" >>,
         << "C4", "B3", "C3", "B2", "D1", "A2", "A4", "D2", "C1" >>,
         << "C4", "B3", "D3", "A3", "B2", "D4", "A1", "C1", "C2" >>,
         << "D3", "C3", "B4", "A4", "D4", "C1", "C2" >>,
         << "B1", "B3", "D3", "D4", "A4", "A1", "D2", "C1", "C2" >>,
         << "D3", "D1", "B2", "A2", "D4", "C1", "C2" >>,
         << "C4", "B3", "D1", "A3", "C3", "D4", "D2" >>,
         << "C4", "D3", "D1", "C3", "B2", "A4", "B4", "A1", "D2" >>
      >>
    >>

peers_iterated_9x9 ==
    <<
      \* PYTHONHASHSEED=0
      <<
         << "A4", "A6", "E5", "A9", "H1", "F1", "A8", "D1", "I9",
            "B3", "C2", "B2", "B1", "C1", "I1", "D4", "C3", "A3",
            "A2", "F6", "G1", "A7", "G7", "E1", "H8", "A5" >>,
         << "A4", "A6", "A9", "D2", "A8", "G2", "B3", "C2", "B2",
            "B1", "C1", "F2", "C3", "A1", "H2", "A3", "A7", "E2",
            "A5", "I2" >>,
         << "A4", "A6", "A9", "A8", "D3", "B3", "C2", "B2", "B1",
            "C1", "H3", "C3", "A1", "I3", "A2", "E3", "F3", "A7",
            "A5", "G3" >>,
         << "A6", "A9", "A8", "C6", "I4", "C5", "G4", "D4", "F4",
            "A1", "H4", "A3", "B5", "A2", "A7", "E4", "C4", "B4",
            "B6", "A5" >>,
         << "A4", "A6", "E5", "A9", "G5", "A8", "C6", "C5", "D5",
            "F5", "H5", "A1", "A3", "B5", "A2", "I5", "A7", "C4",
            "B4", "B6" >>,
         << "H6", "A4", "D6", "A9", "A8", "C6", "C5", "E6", "A1",
            "A3", "G6", "B5", "A2", "F6", "A7", "C4", "B4", "B6",
            "A5", "I6" >>,
         << "A4", "C7", "A6", "A9", "A8", "H7", "D7", "F7", "A1",
            "A3", "A2", "I7", "B8", "C8", "G7", "E7", "A5", "C9",
            "B9", "B7" >>,
         << "A4", "C7", "A6", "A9", "D8", "I8", "G8", "A1", "F8",
            "A3", "A2", "B8", "A7", "C8", "E8", "H8", "A5", "C9",
            "B9", "B7" >>,
         << "A4", "C7", "A6", "D6", "E5", "F9", "E9", "A8", "I9",
            "I1", "H9", "F4", "G9", "A1", "H2", "A3", "A2", "C9",
            "B8", "A7", "C8", "A5", "D9", "G3", "B9", "B7" >>,
         << "H1", "F1", "D1", "B3", "C2", "C1", "I1", "C3", "A1",
            "A3", "B5", "A2", "G1", "B8", "E1", "B4", "B6", "B2",
            "B9", "B7" >>,
         << "E5", "D2", "G2", "I9", "B3", "C2", "B1", "C1", "F2",
            "D4", "C3", "A1", "H2", "A3", "B5", "A2", "F6", "B8",
            "G7", "B4", "H8", "B6", "E2", "I2", "B9", "B7" >>,
         << "D3", "C2", "B1", "C1", "H3", "C3", "I3", "A1", "A3",
            "B5", "A2", "E3", "F3", "B8", "B4", "B6", "B2", "G3",
            "B9", "B7" >>,
         << "A4", "A6", "C6", "I4", "B3", "C5", "B2", "B1", "G4",
            "D4", "F4", "H4", "B5", "B8", "E4", "C4", "B6", "A5",
            "B9", "B7" >>,
         << "A4", "E5", "A6", "G5", "C6", "B3", "D5", "C5", "B2",
            "B1", "F5", "H5", "I5", "B8", "C4", "B4", "B6", "A5",
            "B9", "B7" >>,
         << "H6", "A4", "A6", "D6", "C6", "B3", "C5", "B2", "B1",
            "E6", "G6", "B5", "F6", "B8", "C4", "B4", "A5", "I6",
            "B9", "B7" >>,
         << "C7", "A9", "A8", "H7", "B3", "D7", "B1", "F7", "B5",
            "I7", "B8", "A7", "C8", "G7", "B4", "B6", "E7", "B2",
            "C9", "B9" >>,
         << "C7", "D6", "E5", "A9", "D8", "A8", "B3", "B1", "I1",
            "I8", "G8", "F4", "H2", "F8", "B5", "C8", "A7", "E8",
            "H8", "B4", "B6", "B2", "C9", "G3", "B9", "B7" >>,
         << "C7", "A9", "F9", "E9", "A8", "I9", "B3", "B1", "H9",
            "G9", "B5", "C9", "B8", "A7", "C8", "B4", "B6", "B2",
            "D9", "B7" >>,
         << "C7", "H1", "F1", "C6", "D1", "C5", "B3", "C2", "B1",
            "I1", "C3", "A1", "A3", "A2", "G1", "C8", "E1", "C4",
            "B2", "C9" >>,
         << "C7", "I2", "G2", "C6", "C5", "B3", "C1", "B1", "F2",
            "C3", "A1", "H2", "A3", "A2", "C9", "C8", "C4", "E2",
            "B2", "D2" >>,
         << "C7", "E5", "C6", "I9", "D3", "C5", "C2", "B3", "C1",
            "B1", "D4", "H3", "I3", "A1", "A3", "A2", "E3", "F6",
            "F3", "C8", "G7", "C4", "H8", "B2", "C9", "G3" >>,
         << "C7", "A4", "A6", "C6", "I4", "C5", "C2", "C1", "G4",
            "D4", "F4", "C3", "H4", "B5", "C8", "E4", "B4", "B6",
            "A5", "C9" >>,
         << "C7", "A4", "E5", "A6", "G5", "C6", "D5", "C2", "C1",
            "F5", "H5", "C3", "B5", "I5", "C8", "C4", "B4", "B6",
            "A5", "C9" >>,
         << "H6", "C7", "A4", "A6", "D6", "C5", "C2", "C1", "E6",
            "C3", "G6", "B5", "F6", "C8", "C4", "B4", "B6", "A5",
            "C9", "I6" >>,
         << "D6", "E5", "A9", "A8", "C6", "H7", "C5", "D7", "C2",
            "C1", "I1", "F7", "F4", "C3", "H2", "I7", "B8", "C8",
            "A7", "G7", "C4", "E7", "C9", "G3", "B9", "B7" >>,
         << "C7", "A9", "D8", "A8", "C6", "C5", "C2", "C1", "I8",
            "G8", "C3", "F8", "B8", "A7", "C4", "E8", "H8", "C9",
            "B9", "B7" >>,
         << "C7", "A9", "F9", "E9", "A8", "C6", "I9", "C5", "C2",
            "C1", "H9", "C3", "G9", "B8", "C8", "A7", "C4", "D9",
            "B9", "B7" >>,
         << "D6", "D2", "H1", "D8", "F1", "D3", "D5", "D7", "B1",
            "C1", "I1", "F2", "D4", "A1", "E3", "G1", "F3", "E1",
            "E2", "D9" >>,
         << "D6", "D8", "F1", "G2", "D1", "D3", "D5", "C2", "D9",
            "D7", "F2", "D4", "H2", "A2", "E3", "F3", "E1", "E2",
            "B2", "I2" >>,
         << "D6", "D2", "D8", "F1", "D1", "D5", "D7", "B3", "F2",
            "D4", "H3", "C3", "I3", "A3", "E3", "F3", "E1", "E2",
            "D9", "G3" >>,
         << "A4", "D6", "E5", "D2", "D8", "D1", "I4", "D3", "D5",
            "I9", "D7", "E6", "G4", "F5", "F4", "C3", "H4", "A1",
            "F6", "E4", "G7", "C4", "H8", "B4", "B2", "D9" >>,
         << "D6", "E5", "D2", "D8", "G5", "D1", "D3", "D7", "C5",
            "E6", "F5", "D4", "H5", "F4", "B5", "I5", "F6", "E4",
            "A5", "D9" >>,
         << "H6", "C7", "A6", "E5", "A9", "D2", "D8", "D1", "C6",
            "D3", "D5", "D7", "I1", "E6", "F5", "D4", "F4", "H2",
            "G6", "F6", "B8", "E4", "B6", "D9", "I6", "G3" >>,
         << "C7", "D6", "F9", "D2", "D8", "E9", "D1", "H7", "D3",
            "D5", "F7", "D4", "F8", "I7", "A7", "G7", "E8", "E7",
            "D9", "B7" >>,
         << "D6", "F9", "D2", "E9", "A8", "D1", "D3", "D5", "D7",
            "I8", "F7", "G8", "D4", "F8", "B8", "C8", "E8", "H8",
            "E7", "D9" >>,
         << "D6", "A9", "F9", "D2", "D8", "E9", "D1", "I9", "D3",
            "D5", "D7", "H9", "F7", "D4", "G9", "F8", "E8", "E7",
            "C9", "B9" >>,
         << "E5", "E7", "H1", "E9", "F1", "D1", "D3", "B1", "C1",
            "I1", "F2", "E6", "A1", "E3", "G1", "F3", "E4", "E8",
            "E2", "D2" >>,
         << "E5", "E7", "D2", "E9", "F1", "G2", "D1", "D3", "C2",
            "F2", "E6", "H2", "A2", "E3", "F3", "E4", "E1", "E8",
            "B2", "I2" >>,
         << "E5", "E7", "E9", "F1", "D1", "D3", "B3", "F2", "E6",
            "H3", "C3", "I3", "A3", "F3", "E4", "E1", "E8", "E2",
            "D2", "G3" >>,
         << "A4", "E5", "D6", "E7", "E9", "I4", "D5", "E6", "G4",
            "F5", "D4", "F4", "H4", "E3", "F6", "E1", "E8", "C4",
            "B4", "E2" >>,
         << "I9", "D5", "I1", "F5", "H5", "F4", "A1", "E3", "I5",
            "E4", "G7", "E8", "H8", "E2", "A5", "G3", "C7", "D6",
            "A9", "G5", "E9", "C5", "E6", "D4", "C3", "H2", "B5",
            "F6", "B8", "E1", "E7", "B2" >>,
         << "H6", "E5", "A6", "D6", "E7", "E9", "C6", "D5", "F5",
            "D4", "F4", "G6", "E3", "F6", "E4", "E1", "E8", "B6",
            "E2", "I6" >>,
         << "C7", "E5", "F9", "D8", "E9", "H7", "D7", "E6", "F7",
            "F8", "E3", "I7", "E4", "A7", "G7", "E8", "E1", "E2",
            "D9", "B7" >>,
         << "E5", "E7", "F9", "D8", "E9", "A8", "D7", "I8", "E6",
            "F7", "G8", "F8", "E3", "B8", "E4", "C8", "E1", "H8",
            "E2", "D9" >>,
         << "E5", "A9", "F9", "E7", "D8", "I9", "D7", "H9", "E6",
            "F7", "G9", "F8", "E3", "C9", "E4", "E1", "E8", "E2",
            "D9", "B9" >>,
         << "F9", "H1", "D1", "D3", "B1", "C1", "I1", "F2", "F7",
            "F5", "F4", "A1", "F8", "E3", "F6", "G1", "F3", "E1",
            "E2", "D2" >>,
         << "F9", "I2", "F1", "G2", "D1", "D3", "C2", "F7", "F5",
            "F4", "H2", "F8", "A2", "E3", "F6", "F3", "E1", "E2",
            "B2", "D2" >>,
         << "F9", "F1", "D1", "D3", "B3", "F2", "F7", "F5", "H3",
            "F4", "C3", "I3", "F8", "A3", "E3", "F6", "E1", "E2",
            "D2", "G3" >>,
         << "A4", "C7", "D6", "E5", "A9", "F9", "F1", "I4", "D5",
            "F2", "I1", "F7", "G4", "F5", "E6", "D4", "H4", "H2",
            "F8", "F6", "F3", "B8", "E4", "C4", "B4", "G3" >>,
         << "E5", "D6", "F9", "G5", "F1", "C5", "D5", "F2", "F7",
            "E6", "D4", "H5", "F4", "F8", "B5", "I5", "F6", "F3",
            "E4", "A5" >>,
         << "H6", "A6", "D6", "E5", "F9", "F1", "C6", "I9", "D5",
            "F2", "E6", "F7", "F5", "D4", "F4", "C3", "A1", "F8",
            "G6", "F3", "E4", "G7", "H8", "B6", "B2", "I6" >>,
         << "C7", "F9", "D8", "E9", "F1", "H7", "D7", "F2", "F5",
            "F4", "F8", "F6", "I7", "F3", "A7", "G7", "E8", "E7",
            "D9", "B7" >>,
         << "F9", "D8", "E9", "F1", "A8", "D7", "F2", "I8", "F7",
            "F5", "G8", "F4", "F6", "F3", "B8", "C8", "E8", "H8",
            "E7", "D9" >>,
         << "A9", "D8", "E9", "F1", "I9", "D7", "D9", "F2", "H9",
            "F7", "F5", "F4", "G9", "F8", "F6", "F3", "E8", "E7",
            "C9", "B9" >>,
         << "H1", "G5", "F1", "G2", "D1", "B1", "C1", "I1", "G4",
            "G8", "H3", "G9", "A1", "I3", "H2", "G6", "G7", "E1",
            "I2", "G3" >>,
         << "D2", "H1", "G5", "C2", "F2", "I1", "G4", "G8", "H3",
            "G9", "I3", "H2", "G6", "A2", "G1", "G7", "E2", "B2",
            "I2", "G3" >>,
         << "C7", "D6", "E5", "A9", "H1", "G5", "G2", "D3", "B3",
            "I1", "G4", "G8", "H3", "F4", "C3", "G9", "I3", "H2",
            "A3", "G6", "E3", "G1", "F3", "B8", "G7", "I2" >>,
         << "H6", "A4", "G5", "G2", "I4", "G8", "D4", "H5", "F4",
            "G9", "H4", "G6", "I5", "G1", "E4", "G7", "C4", "B4",
            "I6", "G3" >>,
         << "H6", "E5", "G2", "I4", "C5", "D5", "G4", "F5", "G8",
            "H5", "G9", "H4", "G6", "B5", "I5", "G1", "G7", "A5",
            "I6", "G3" >>,
         << "H6", "A6", "D6", "G5", "G2", "C6", "I4", "E6", "G4",
            "G8", "H5", "G9", "H4", "I5", "F6", "G1", "G7", "B6",
            "I6", "G3" >>,
         << "C7", "E5", "G5", "G2", "H7", "I9", "D7", "I8", "H9",
            "G4", "F7", "G8", "D4", "C3", "G9", "A1", "G6", "F6",
            "I7", "G1", "A7", "H8", "E7", "B2", "G3", "B7" >>,
         << "D8", "G5", "A8", "G2", "H7", "I9", "I8", "H9", "G4",
            "G9", "F8", "G6", "I7", "G1", "B8", "C8", "G7", "E8",
            "H8", "G3" >>,
         << "A9", "F9", "G5", "E9", "G2", "I9", "H7", "I8", "H9",
            "G4", "G8", "G6", "I7", "G1", "C9", "G7", "H8", "D9",
            "G3", "B9" >>,
         << "H6", "F1", "G2", "D1", "H7", "B1", "C1", "I1", "H9",
            "H3", "H5", "H4", "A1", "I3", "H2", "G1", "E1", "H8",
            "I2", "G3" >>,
         << "H6", "C7", "D6", "E5", "A9", "D2", "H1", "G2", "H7",
            "C2", "F2", "I1", "H9", "H3", "H5", "F4", "H4", "I3",
            "A2", "G1", "B8", "H8", "E2", "B2", "I2", "G3" >>,
         << "H6", "H1", "G2", "H7", "D3", "B3", "I1", "H9", "H5",
            "C3", "H4", "I3", "H2", "A3", "E3", "G1", "F3", "H8",
            "I2", "G3" >>,
         << "H6", "A4", "H1", "G5", "H7", "I4", "H9", "G4", "D4",
            "F4", "H3", "H5", "H2", "G6", "I5", "E4", "C4", "H8",
            "B4", "I6" >>,
         << "H6", "E5", "H1", "G5", "H7", "I4", "D5", "C5", "H9",
            "G4", "F5", "H3", "H4", "H2", "G6", "B5", "I5", "H8",
            "A5", "I6" >>,
         << "A6", "D6", "H1", "G5", "C6", "H7", "I4", "E6", "G4",
            "H9", "H3", "H5", "H4", "H2", "G6", "I5", "F6", "H8",
            "B6", "I6" >>,
         << "H6", "C7", "H1", "I9", "D7", "I8", "H9", "F7", "G8",
            "H3", "H5", "G9", "H4", "H2", "I7", "A7", "G7", "H8",
            "E7", "B7" >>,
         << "H6", "E5", "H1", "D8", "A8", "H7", "I9", "I8", "H9",
            "G8", "D4", "H3", "H5", "C3", "G9", "H4", "A1", "H2",
            "F8", "F6", "I7", "B8", "C8", "G7", "E8", "B2" >>,
         << "H6", "A9", "F9", "H1", "E9", "H7", "I9", "I8", "G8",
            "H3", "H5", "G9", "H4", "H2", "I7", "C9", "G7", "H8",
            "D9", "B9" >>,
         << "C7", "D6", "E5", "A9", "H1", "F1", "G2", "D1", "I4",
            "I9", "B1", "C1", "I8", "H3", "F4", "I3", "A1", "H2",
            "I5", "I7", "G1", "B8", "E1", "I2", "I6", "G3" >>,
         << "H1", "G2", "I4", "I9", "C2", "F2", "I1", "I8", "H3",
            "I3", "H2", "A2", "I5", "I7", "G1", "E2", "B2", "D2",
            "I6", "G3" >>,
         << "H1", "G2", "I4", "I9", "D3", "B3", "I1", "I8", "H3",
            "C3", "H2", "A3", "E3", "I5", "I7", "G1", "F3", "I2",
            "I6", "G3" >>,
         << "H6", "A4", "G5", "I9", "I1", "I8", "G4", "D4", "F4",
            "H5", "I3", "H4", "G6", "I5", "I7", "E4", "C4", "B4",
            "I2", "I6" >>,
         << "H6", "E5", "G5", "I4", "I9", "D5", "C5", "I1", "I8",
            "G4", "F5", "H5", "I3", "H4", "G6", "B5", "I7", "A5",
            "I2", "I6" >>,
         << "H6", "A6", "D6", "G5", "C6", "I4", "I9", "I1", "I8",
            "E6", "G4", "H5", "I3", "H4", "G6", "I5", "I7", "F6",
            "B6", "I2" >>,
         << "C7", "I4", "I9", "H7", "D7", "I1", "I8", "F7", "H9",
            "G8", "G9", "I3", "I5", "A7", "G7", "H8", "E7", "I2",
            "I6", "B7" >>,
         << "D8", "A8", "I4", "I9", "H7", "I1", "H9", "G8", "G9",
            "I3", "F8", "I5", "I7", "B8", "C8", "G7", "E8", "H8",
            "I2", "I6" >>,
         << "E5", "A9", "F9", "E9", "I4", "H7", "D9", "I1", "I8",
            "H9", "G8", "D4", "C3", "G9", "I3", "A1", "I5", "I7",
            "F6", "C9", "G7", "H8", "B2", "I2", "I6", "B9" >>
      >>,
      \* PYTHONHASHSEED=1
      <<
         << "H8", "H1", "C2", "A3", "B2", "F1", "B1", "C1", "A6",
            "A4", "A9", "A5", "G7", "A8", "F6", "I9", "D4", "A2",
            "B3", "C3", "A7", "G1", "I1", "D1", "E1", "E5" >>,
         << "I2", "H2", "A1", "G2", "C2", "A3", "B1", "C1", "D2",
            "A6", "A4", "A9", "A5", "A8", "B3", "E2", "C3", "B2",
            "A7", "F2" >>,
         << "D3", "H3", "A1", "F3", "C2", "B1", "C1", "E3", "I3",
            "A6", "A4", "A9", "A5", "A8", "A2", "B3", "C3", "G3",
            "B2", "A7" >>,
         << "A1", "C4", "B4", "A3", "A6", "A9", "A5", "A8", "I4",
            "H4", "D4", "B5", "E4", "A2", "F4", "G4", "B6", "C5",
            "A7", "C6" >>,
         << "A1", "C4", "B4", "H5", "A3", "A6", "D5", "A4", "G5",
            "A9", "I5", "A8", "B5", "F5", "A2", "A7", "B6", "C5",
            "E5", "C6" >>,
         << "A1", "C4", "B4", "A3", "G6", "E6", "A4", "A9", "A5",
            "A8", "F6", "B5", "A2", "I6", "D6", "B6", "H6", "C5",
            "A7", "C6" >>,
         << "B9", "A1", "C9", "C8", "B8", "A3", "A6", "A4", "A9",
            "G7", "A5", "F7", "A8", "H7", "A2", "C7", "I7", "D7",
            "E7", "B7" >>,
         << "B9", "H8", "A1", "C9", "C8", "B8", "A3", "G8", "A6",
            "A4", "A9", "A5", "D8", "A2", "C7", "F8", "I8", "E8",
            "B7", "A7" >>,
         << "B9", "H2", "A1", "C9", "D9", "F9", "E9", "C8", "A3",
            "B8", "H9", "A6", "A4", "G9", "A5", "A8", "I9", "A2",
            "A7", "C7", "D6", "I1", "F4", "G3", "B7", "E5" >>,
         << "B9", "A1", "H1", "B4", "C2", "B8", "A3", "F1", "C1",
            "E1", "B5", "A2", "B3", "C3", "G1", "I1", "B6", "D1",
            "B2", "B7" >>,
         << "B9", "H8", "I2", "H2", "A1", "B4", "G2", "C2", "B8",
            "A3", "B1", "C1", "D2", "G7", "I9", "F6", "D4", "B5",
            "A2", "B3", "E2", "C3", "B6", "B7", "E5", "F2" >>,
         << "D3", "H3", "B9", "F3", "A1", "B4", "C2", "B8", "A3",
            "B1", "C1", "E3", "I3", "B5", "A2", "C3", "B6", "G3",
            "B2", "B7" >>,
         << "B9", "C4", "B8", "B1", "A6", "A5", "A4", "I4", "H4",
            "D4", "B5", "E4", "B3", "F4", "G4", "B6", "C5", "B2",
            "B7", "C6" >>,
         << "B9", "C4", "B4", "H5", "B8", "B1", "A6", "D5", "A5",
            "A4", "G5", "I5", "F5", "B3", "B6", "C5", "B2", "B7",
            "E5", "C6" >>,
         << "B9", "C4", "B4", "B8", "G6", "B1", "E6", "A6", "A5",
            "A4", "F6", "B5", "B3", "I6", "D6", "H6", "C5", "B2",
            "B7", "C6" >>,
         << "B9", "C9", "B4", "C8", "B8", "B1", "G7", "A9", "F7",
            "A8", "B5", "H7", "B3", "C7", "I7", "D7", "E7", "B6",
            "B2", "A7" >>,
         << "B9", "H8", "H2", "C9", "B4", "C8", "B1", "G8", "A9",
            "A8", "B5", "D8", "B3", "A7", "C7", "F8", "D6", "I8",
            "I1", "F4", "B6", "G3", "B2", "E8", "B7", "E5" >>,
         << "D9", "C9", "F9", "B4", "E9", "C8", "B8", "H9", "B1",
            "G9", "A9", "I9", "A8", "B5", "B3", "C7", "B6", "B2",
            "B7", "A7" >>,
         << "A1", "C9", "H1", "C4", "C2", "C8", "A3", "F1", "B1",
            "E1", "A2", "B3", "C3", "C7", "G1", "I1", "C5", "D1",
            "B2", "C6" >>,
         << "I2", "H2", "A1", "C9", "C4", "G2", "C8", "A3", "B1",
            "C1", "D2", "F2", "A2", "B3", "E2", "C3", "C7", "C5",
            "B2", "C6" >>,
         << "D3", "H3", "H8", "F3", "C9", "A1", "C4", "C2", "C8",
            "A3", "B1", "C1", "E3", "I3", "G7", "I9", "F6", "D4",
            "A2", "B3", "C7", "G3", "C5", "B2", "E5", "C6" >>,
         << "C9", "B4", "C2", "C8", "C1", "A6", "A5", "A4", "I4",
            "H4", "D4", "B5", "E4", "C3", "C7", "F4", "G4", "B6",
            "C5", "C6" >>,
         << "C9", "C4", "B4", "H5", "C8", "C2", "C1", "A6", "D5",
            "A4", "G5", "A5", "I5", "B5", "F5", "C3", "C7", "B6",
            "E5", "C6" >>,
         << "C9", "C4", "B4", "C2", "C8", "G6", "C1", "E6", "A6",
            "A5", "A4", "F6", "B5", "C3", "I6", "C7", "D6", "B6",
            "H6", "C5" >>,
         << "B9", "H2", "C9", "C4", "C2", "C8", "B8", "C1", "G7",
            "A9", "F7", "A8", "H7", "C3", "A7", "I7", "D6", "I1",
            "F4", "E7", "G3", "D7", "C5", "B7", "E5", "C6" >>,
         << "B9", "H8", "C9", "C4", "C2", "B8", "C1", "G8", "A9",
            "A8", "D8", "C3", "C7", "F8", "I8", "C5", "E8", "B7",
            "A7", "C6" >>,
         << "B9", "D9", "F9", "C4", "C2", "C8", "E9", "B8", "H9",
            "C1", "G9", "A9", "I9", "A8", "C3", "C7", "C5", "B7",
            "A7", "C6" >>,
         << "D3", "D9", "A1", "H1", "F3", "F1", "B1", "C1", "E3",
            "D2", "D5", "D4", "D8", "E2", "G1", "D6", "I1", "D7",
            "E1", "F2" >>,
         << "D3", "I2", "H2", "D9", "F3", "G2", "C2", "F1", "E1",
            "E3", "D5", "D4", "D8", "A2", "E2", "D6", "D7", "D1",
            "B2", "F2" >>,
         << "H3", "D9", "F3", "A3", "F1", "E3", "D2", "I3", "D5",
            "D4", "D8", "E2", "B3", "C3", "D6", "D7", "G3", "D1",
            "E1", "F2" >>,
         << "D3", "H8", "D9", "A1", "C4", "B4", "E6", "D2", "D5",
            "A4", "G7", "I4", "F6", "H4", "I9", "F5", "E4", "D8",
            "C3", "D6", "F4", "D7", "G4", "D1", "B2", "E5" >>,
         << "D3", "D9", "H5", "E6", "D2", "A5", "G5", "I5", "F6",
            "D4", "B5", "F5", "E4", "D8", "D6", "F4", "D7", "C5",
            "D1", "E5" >>,
         << "D3", "H2", "D9", "B8", "G6", "E6", "D2", "A6", "D5",
            "A9", "F6", "D4", "F5", "E4", "D8", "I6", "C7", "I1",
            "F4", "D7", "G3", "H6", "B6", "D1", "E5", "C6" >>,
         << "D3", "D9", "F9", "E9", "D2", "D5", "G7", "F7", "D4",
            "H7", "D8", "C7", "I7", "F8", "D6", "E7", "D1", "E8",
            "B7", "A7" >>,
         << "D3", "H8", "D9", "F9", "C8", "E9", "B8", "G8", "D2",
            "D5", "F7", "A8", "D4", "F8", "D6", "I8", "D7", "E7",
            "D1", "E8" >>,
         << "D3", "B9", "C9", "F9", "E9", "H9", "D2", "D5", "G9",
            "A9", "F7", "I9", "D4", "D8", "F8", "D6", "D7", "E7",
            "D1", "E8" >>,
         << "D3", "A1", "F3", "H1", "E9", "F1", "B1", "C1", "E3",
            "D2", "E6", "E4", "E2", "G1", "I1", "E7", "D1", "E8",
            "E5", "F2" >>,
         << "D3", "I2", "H2", "F3", "G2", "C2", "E9", "B2", "F1",
            "E6", "E3", "D2", "E4", "A2", "E7", "D1", "E1", "E8",
            "E5", "F2" >>,
         << "D3", "H3", "F3", "E9", "A3", "F1", "E6", "D2", "I3",
            "E4", "E2", "B3", "C3", "E7", "G3", "D1", "E1", "E8",
            "E5", "F2" >>,
         << "C4", "B4", "E9", "E6", "E3", "D5", "A4", "I4", "F6",
            "H4", "D4", "F5", "E2", "D6", "F4", "E7", "G4", "E1",
            "E8", "E5" >>,
         << "A1", "E9", "E3", "F6", "B5", "F5", "E4", "C3", "F4",
            "E7", "G3", "H8", "H2", "H5", "B8", "B2", "E6", "D5",
            "A5", "G5", "G7", "A9", "I5", "I9", "D4", "E2", "C7",
            "D6", "I1", "C5", "E1", "E8" >>,
         << "E9", "G6", "E3", "A6", "D5", "F6", "D4", "F5", "E4",
            "E2", "I6", "D6", "F4", "E7", "B6", "H6", "E1", "E8",
            "E5", "C6" >>,
         << "D9", "F9", "E9", "E6", "E3", "G7", "F7", "H7", "E4",
            "D8", "E2", "A7", "C7", "I7", "F8", "D7", "E1", "E8",
            "B7", "E5" >>,
         << "H8", "D9", "F9", "E9", "C8", "B8", "E6", "E3", "G8",
            "F7", "A8", "E4", "D8", "E2", "F8", "I8", "D7", "E7",
            "E1", "E5" >>,
         << "B9", "D9", "C9", "F9", "H9", "E6", "E3", "G9", "A9",
            "F7", "I9", "E4", "D8", "E2", "F8", "D7", "E7", "E1",
            "E8", "E5" >>,
         << "D3", "F3", "A1", "H1", "F9", "B1", "C1", "E3", "D2",
            "F7", "F6", "F5", "E2", "G1", "F8", "I1", "F4", "D1",
            "E1", "F2" >>,
         << "D3", "I2", "H2", "F3", "F9", "G2", "C2", "B2", "F1",
            "E3", "D2", "F7", "F6", "F5", "A2", "E2", "F8", "F4",
            "D1", "E1" >>,
         << "D3", "H3", "F9", "A3", "F1", "E3", "D2", "I3", "F7",
            "F6", "F5", "E2", "B3", "C3", "F8", "F4", "G3", "D1",
            "E1", "F2" >>,
         << "H2", "F3", "F9", "C4", "B4", "B8", "F1", "E6", "D5",
            "A4", "A9", "F7", "F6", "H4", "I4", "D4", "F5", "E4",
            "C7", "F8", "D6", "I1", "G4", "G3", "E5", "F2" >>,
         << "F3", "F9", "H5", "F1", "E6", "D5", "A5", "G5", "I5",
            "F7", "F6", "D4", "B5", "E4", "F8", "D6", "F4", "C5",
            "E5", "F2" >>,
         << "H8", "F3", "A1", "F9", "G6", "F1", "E6", "A6", "D5",
            "G7", "F7", "I9", "D4", "C6", "F5", "E4", "C3", "I6",
            "F8", "D6", "F4", "B6", "H6", "B2", "E5", "F2" >>,
         << "F3", "D9", "F9", "E9", "F1", "G7", "F6", "H7", "F5",
            "D8", "C7", "I7", "F8", "F4", "E7", "D7", "E8", "B7",
            "A7", "F2" >>,
         << "H8", "F3", "D9", "F9", "C8", "E9", "B8", "F1", "G8",
            "F7", "F6", "A8", "F5", "D8", "I8", "F4", "E7", "D7",
            "E8", "F2" >>,
         << "B9", "F3", "C9", "D9", "E9", "F1", "H9", "G9", "A9",
            "F7", "F6", "I9", "F5", "D8", "F8", "F4", "E7", "D7",
            "E8", "F2" >>,
         << "H3", "I2", "H2", "A1", "H1", "G2", "G6", "F1", "B1",
            "C1", "G8", "I3", "G9", "G7", "G5", "I1", "G4", "G3",
            "D1", "E1" >>,
         << "H3", "I2", "H2", "H1", "C2", "G6", "G8", "D2", "I3",
            "G9", "G7", "G5", "A2", "E2", "G1", "I1", "G4", "G3",
            "B2", "F2" >>,
         << "D3", "H3", "I2", "H2", "F3", "H1", "G2", "B8", "A3",
            "G6", "E3", "G8", "I3", "G9", "G7", "G5", "A9", "B3",
            "C3", "C7", "G1", "I1", "D6", "F4", "G4", "E5" >>,
         << "C4", "B4", "G2", "H5", "G6", "G8", "A4", "G9", "G7",
            "G5", "I5", "I4", "H4", "D4", "E4", "I6", "G1", "F4",
            "G3", "H6" >>,
         << "G2", "H5", "G6", "G8", "D5", "A5", "G9", "G7", "I5",
            "I4", "H4", "B5", "F5", "I6", "G1", "G4", "G3", "H6",
            "C5", "E5" >>,
         << "G2", "H5", "E6", "G8", "A6", "G9", "G7", "G5", "I5",
            "I4", "F6", "H4", "I6", "G1", "D6", "G4", "B6", "G3",
            "H6", "C6" >>,
         << "H8", "A1", "G2", "G6", "H9", "G8", "G9", "G5", "F7",
            "F6", "I9", "D4", "H7", "C3", "A7", "C7", "G1", "I7",
            "I8", "G4", "E7", "G3", "D7", "B2", "B7", "E5" >>,
         << "H8", "G2", "C8", "B8", "G6", "H9", "G9", "G7", "G5",
            "A8", "I9", "H7", "D8", "G1", "I7", "F8", "I8", "G4",
            "G3", "E8" >>,
         << "B9", "H8", "D9", "C9", "F9", "G2", "E9", "G6", "H9",
            "G8", "G7", "A9", "G5", "I9", "H7", "G1", "I7", "I8",
            "G4", "G3" >>,
         << "H3", "H8", "I2", "H2", "A1", "H5", "G2", "F1", "H9",
            "C1", "B1", "I3", "H4", "H7", "G1", "I1", "G3", "H6",
            "D1", "E1" >>,
         << "H3", "H8", "I2", "H1", "H5", "C2", "G2", "B8", "H9",
            "D2", "I3", "A9", "H4", "H7", "A2", "E2", "C7", "G1",
            "I1", "D6", "F4", "G3", "H6", "B2", "E5", "F2" >>,
         << "D3", "H8", "I2", "H2", "F3", "H1", "H5", "G2", "A3",
            "H9", "E3", "I3", "H4", "H7", "B3", "C3", "G1", "I1",
            "G3", "H6" >>,
         << "H3", "H8", "H2", "C4", "H1", "B4", "H5", "G6", "H9",
            "A4", "G5", "I5", "I4", "D4", "H7", "E4", "I6", "F4",
            "G4", "H6" >>,
         << "H3", "H8", "H2", "H1", "G6", "H9", "D5", "A5", "G5",
            "I5", "I4", "H4", "H7", "B5", "F5", "I6", "G4", "H6",
            "C5", "E5" >>,
         << "H3", "H8", "H2", "H1", "H5", "G6", "H9", "E6", "A6",
            "G5", "I5", "I4", "F6", "H4", "H7", "I6", "D6", "G4",
            "B6", "C6" >>,
         << "H3", "H8", "H2", "H1", "H5", "H9", "G8", "G9", "G7",
            "F7", "I9", "H4", "C7", "I7", "I8", "D7", "E7", "H6",
            "B7", "A7" >>,
         << "H3", "H2", "A1", "H1", "H5", "C8", "B8", "H9", "G8",
            "G9", "G7", "A8", "F6", "H4", "I9", "H7", "D4", "D8",
            "C3", "I7", "F8", "I8", "H6", "B2", "E8", "E5" >>,
         << "H3", "B9", "H8", "H2", "D9", "C9", "H1", "F9", "H5",
            "E9", "G8", "G9", "G7", "A9", "I9", "H4", "H7", "I7",
            "I8", "H6" >>,
         << "H3", "I2", "H2", "A1", "H1", "G2", "B8", "F1", "B1",
            "C1", "I3", "A9", "I5", "I4", "I9", "I6", "C7", "I7",
            "G1", "I8", "F4", "D6", "G3", "D1", "E1", "E5" >>,
         << "H3", "H2", "H1", "G2", "C2", "D2", "I3", "I5", "I4",
            "I9", "A2", "E2", "I6", "I7", "G1", "I1", "I8", "G3",
            "B2", "F2" >>,
         << "D3", "H3", "I2", "H2", "F3", "H1", "G2", "A3", "E3",
            "I5", "I4", "I9", "B3", "C3", "I6", "I7", "G1", "I1",
            "I8", "G3" >>,
         << "I2", "C4", "B4", "H5", "G6", "I3", "A4", "G5", "I5",
            "I9", "H4", "D4", "E4", "I6", "I7", "I1", "I8", "F4",
            "G4", "H6" >>,
         << "I2", "H5", "G6", "I3", "D5", "A5", "G5", "I4", "I9",
            "H4", "B5", "F5", "I6", "I7", "I1", "I8", "G4", "H6",
            "C5", "E5" >>,
         << "I2", "H5", "G6", "E6", "A6", "I3", "G5", "I5", "I4",
            "F6", "H4", "I9", "I7", "I1", "I8", "D6", "G4", "B6",
            "H6", "C6" >>,
         << "H8", "I2", "H9", "G8", "I3", "G9", "G7", "I5", "F7",
            "I4", "I9", "H7", "I6", "C7", "I1", "I8", "D7", "E7",
            "B7", "A7" >>,
         << "H8", "I2", "C8", "B8", "H9", "G8", "I3", "G9", "G7",
            "I5", "I4", "I9", "A8", "H7", "D8", "I6", "I7", "F8",
            "I1", "E8" >>,
         << "B9", "H8", "I2", "D9", "C9", "A1", "F9", "E9", "H9",
            "G8", "I3", "G9", "G7", "A9", "I5", "I4", "F6", "D4",
            "H7", "C3", "I6", "I7", "I1", "I8", "B2", "E5" >>
      >>,
      \* PYTHONHASHSEED=2
      <<
         << "F1", "H1", "G1", "A7", "F6", "B3", "A2", "A6", "A9",
            "G7", "H8", "C1", "A5", "I1", "B1", "D1", "A8", "B2",
            "C3", "D4", "A3", "E5", "A4", "E1", "I9", "C2" >>,
         << "A7", "F2", "H2", "B3", "I2", "E2", "A6", "A9", "G2",
            "C1", "A5", "B1", "B2", "A8", "C3", "A3", "A4", "A1",
            "D2", "C2" >>,
         << "A7", "B3", "G3", "A2", "I3", "A6", "A9", "H3", "E3",
            "C1", "A5", "B1", "D3", "C3", "A8", "B2", "A4", "A1",
            "F3", "C2" >>,
         << "H4", "A7", "C4", "B5", "A2", "A6", "A9", "C6", "F4",
            "B6", "A5", "I4", "G4", "A8", "A3", "D4", "B4", "A1",
            "E4", "C5" >>,
         << "A7", "C4", "B5", "A2", "I5", "A6", "A9", "C6", "D5",
            "B6", "G5", "F5", "A8", "A3", "E5", "B4", "A4", "A1",
            "H5", "C5" >>,
         << "D6", "A7", "F6", "C4", "B5", "G6", "A2", "A9", "I6",
            "C6", "H6", "B6", "A5", "A8", "E6", "A3", "B4", "A4",
            "A1", "C5" >>,
         << "F7", "A2", "H7", "A6", "A9", "G7", "A5", "I7", "C7",
            "A8", "A3", "A4", "B9", "C8", "B7", "A1", "B8", "C9",
            "D7", "E7" >>,
         << "A7", "D8", "E8", "A2", "A6", "A9", "I8", "H8", "G8",
            "F8", "A5", "C7", "A3", "A4", "C8", "B9", "B7", "A1",
            "B8", "C9" >>,
         << "D6", "E9", "H9", "A7", "H2", "G3", "A2", "A6", "G9",
            "F4", "A5", "I1", "C7", "A8", "A3", "F9", "E5", "A4",
            "B9", "C8", "C9", "A1", "B8", "B7", "I9", "D9" >>,
         << "F1", "H1", "G1", "B5", "B3", "B8", "A2", "C1", "B6",
            "I1", "B2", "D1", "C3", "A3", "B4", "B9", "B7", "A1",
            "E1", "C2" >>,
         << "F2", "F6", "B5", "H2", "B3", "I2", "B8", "E2", "A2",
            "G7", "G2", "H8", "C1", "B6", "B1", "C3", "A3", "E5",
            "D4", "B4", "B9", "B7", "A1", "D2", "I9", "C2" >>,
         << "B5", "G3", "I3", "A2", "H3", "E3", "C1", "B6", "B1",
            "D3", "B2", "C3", "A3", "B4", "B9", "B7", "A1", "B8",
            "F3", "C2" >>,
         << "H4", "C4", "B5", "B3", "A6", "C6", "F4", "B6", "I4",
            "A5", "G4", "B1", "B2", "D4", "B9", "A4", "B7", "B8",
            "E4", "C5" >>,
         << "C4", "B3", "I5", "A6", "C6", "D5", "B6", "A5", "B1",
            "G5", "B2", "F5", "E5", "B4", "B9", "A4", "B7", "B8",
            "H5", "C5" >>,
         << "D6", "F6", "C4", "B5", "B3", "A6", "I6", "C6", "H6",
            "A5", "B1", "B2", "E6", "B4", "B9", "A4", "B7", "G6",
            "B8", "C5" >>,
         << "A7", "B5", "B3", "F7", "H7", "A9", "G7", "B6", "B1",
            "I7", "C7", "B2", "A8", "B4", "B9", "C8", "C9", "B8",
            "D7", "E7" >>,
         << "D6", "A7", "D8", "E8", "H2", "B5", "B3", "G3", "A9",
            "I8", "H8", "G8", "F8", "F4", "B6", "I1", "B1", "C7",
            "B2", "A8", "E5", "B4", "B9", "C8", "B7", "C9" >>,
         << "E9", "H9", "A7", "B5", "B3", "G9", "A9", "B6", "B1",
            "C7", "B2", "A8", "F9", "B4", "C8", "B7", "C9", "B8",
            "I9", "D9" >>,
         << "F1", "H1", "G1", "C4", "B3", "A2", "C6", "I1", "B1",
            "C7", "C3", "D1", "B2", "A3", "C2", "C8", "C9", "A1",
            "E1", "C5" >>,
         << "F2", "C4", "H2", "B3", "I2", "E2", "A2", "G2", "C6",
            "C1", "B1", "C7", "C3", "B2", "A3", "C8", "C9", "A1",
            "D2", "C5" >>,
         << "F6", "C4", "B3", "G3", "I3", "A2", "G7", "C6", "H3",
            "E3", "C1", "H8", "B1", "D3", "C7", "B2", "A3", "E5",
            "D4", "C2", "C8", "C9", "A1", "I9", "F3", "C5" >>,
         << "H4", "B5", "A6", "C6", "C1", "F4", "B6", "I4", "A5",
            "G4", "C7", "C3", "D4", "B4", "A4", "C8", "C9", "C2",
            "E4", "C5" >>,
         << "C4", "B5", "I5", "A6", "C6", "C1", "D5", "B6", "A5",
            "C7", "G5", "C3", "F5", "E5", "B4", "A4", "C8", "C9",
            "C2", "H5" >>,
         << "D6", "F6", "C4", "B5", "A6", "I6", "C1", "H6", "B6",
            "A5", "C7", "C3", "E6", "B4", "A4", "C8", "C2", "C9",
            "G6", "C5" >>,
         << "D6", "A7", "C4", "H2", "F7", "G3", "H7", "A9", "G7",
            "C6", "C5", "C1", "F4", "I1", "I7", "C3", "A8", "E5",
            "B9", "C8", "C2", "C9", "B7", "B8", "D7", "E7" >>,
         << "A7", "C4", "D8", "E8", "A9", "I8", "H8", "C1", "F8",
            "G8", "C6", "C7", "C3", "A8", "B9", "C2", "C9", "B7",
            "B8", "C5" >>,
         << "E9", "H9", "A7", "C4", "G9", "A9", "C6", "C1", "C7",
            "C3", "A8", "F9", "B9", "C8", "C2", "B7", "B8", "I9",
            "D9", "C5" >>,
         << "F1", "H1", "D6", "G1", "F2", "D8", "E2", "E3", "C1",
            "D5", "I1", "B1", "D2", "D3", "D4", "A1", "E1", "D7",
            "F3", "D9" >>,
         << "F1", "D6", "F2", "D8", "H2", "I2", "E2", "A2", "G2",
            "E3", "D5", "D3", "D1", "B2", "D4", "E1", "D7", "F3",
            "D9", "C2" >>,
         << "F1", "D6", "F2", "D8", "B3", "G3", "E2", "I3", "H3",
            "E3", "D5", "D2", "D1", "C3", "A3", "D4", "E1", "D7",
            "F3", "D9" >>,
         << "D6", "H4", "F6", "C4", "D8", "G7", "H8", "D5", "F4",
            "I4", "G4", "D3", "D1", "B2", "E6", "C3", "F5", "E5",
            "B4", "A4", "A1", "D2", "I9", "D7", "E4", "D9" >>,
         << "D6", "E4", "F6", "D8", "B5", "I5", "F4", "A5", "D3",
            "G5", "D1", "F5", "E6", "E5", "D4", "D2", "D7", "H5",
            "D9", "C5" >>,
         << "F6", "D8", "H2", "B8", "G3", "A6", "A9", "I6", "C6",
            "D5", "F4", "B6", "H6", "I1", "D3", "C7", "D1", "F5",
            "E6", "E5", "D4", "G6", "D2", "D7", "E4", "D9" >>,
         << "D6", "E9", "A7", "D8", "E8", "F7", "H7", "G7", "D5",
            "F8", "I7", "D3", "C7", "D1", "F9", "D4", "B7", "D2",
            "D9", "E7" >>,
         << "D6", "E9", "E8", "F7", "B8", "I8", "H8", "G8", "F8",
            "D5", "D3", "D1", "A8", "F9", "D4", "C8", "D2", "D7",
            "D9", "E7" >>,
         << "D6", "E9", "H9", "D8", "E8", "F7", "G9", "A9", "D5",
            "F8", "D3", "D1", "F9", "D4", "B9", "C9", "D2", "I9",
            "D7", "E7" >>,
         << "F1", "H1", "G1", "E9", "F2", "E8", "E2", "C1", "E3",
            "I1", "B1", "D3", "D1", "E6", "E5", "A1", "D2", "F3",
            "E4", "E7" >>,
         << "F1", "E9", "F2", "E8", "H2", "I2", "A2", "G2", "E3",
            "E1", "D3", "B2", "D1", "E6", "E5", "C2", "D2", "F3",
            "E4", "E7" >>,
         << "F1", "E9", "F2", "E8", "B3", "E2", "G3", "I3", "H3",
            "E1", "D3", "C3", "D1", "E6", "A3", "E5", "D2", "F3",
            "E4", "E7" >>,
         << "D6", "H4", "E9", "F6", "C4", "E8", "E2", "E3", "D5",
            "F4", "I4", "G4", "F5", "E6", "E5", "D4", "B4", "A4",
            "E1", "E7" >>,
         << "E8", "H2", "E2", "G3", "A9", "H8", "E3", "D5", "F4",
            "A5", "I1", "B2", "C3", "E6", "D4", "E1", "I9", "H5",
            "E7", "D6", "E9", "F6", "B5", "I5", "G7", "G5", "C7",
            "F5", "A1", "B8", "E4", "C5" >>,
         << "D6", "E9", "F6", "E8", "E2", "A6", "I6", "C6", "E3",
            "D5", "F4", "B6", "H6", "F5", "E5", "D4", "G6", "E1",
            "E4", "E7" >>,
         << "E9", "A7", "D8", "E8", "F7", "E2", "H7", "G7", "E3",
            "F8", "I7", "C7", "E6", "E5", "F9", "B7", "E1", "D7",
            "E4", "D9" >>,
         << "E9", "D8", "F7", "B8", "E2", "I8", "H8", "E3", "F8",
            "G8", "A8", "E6", "E5", "F9", "C8", "E1", "D7", "E4",
            "D9", "E7" >>,
         << "H9", "D8", "E8", "F7", "E2", "G9", "A9", "E3", "F8",
            "E6", "E5", "F9", "B9", "C9", "E1", "I9", "D7", "E4",
            "D9", "E7" >>,
         << "H1", "G1", "F2", "F6", "F7", "E2", "C1", "F8", "F4",
            "E3", "E1", "I1", "B1", "D3", "D1", "F5", "F9", "A1",
            "D2", "F3" >>,
         << "F1", "F6", "H2", "F7", "I2", "E2", "A2", "G2", "E3",
            "F8", "F4", "E1", "D3", "B2", "D1", "F5", "F9", "D2",
            "F3", "C2" >>,
         << "F1", "F2", "F6", "B3", "F7", "G3", "E2", "I3", "H3",
            "E3", "F8", "F4", "E1", "D3", "C3", "D1", "F5", "A3",
            "F9", "D2" >>,
         << "F1", "D6", "H4", "F2", "F6", "C4", "H2", "F7", "G3",
            "A9", "D5", "F8", "I4", "G4", "I1", "C7", "F5", "E6",
            "F9", "D4", "B4", "A4", "E5", "B8", "F3", "E4" >>,
         << "F1", "D6", "E4", "F2", "F6", "B5", "F7", "I5", "D5",
            "F8", "F4", "A5", "G5", "E6", "F9", "D4", "E5", "F3",
            "H5", "C5" >>,
         << "F1", "D6", "F2", "G6", "F7", "A6", "G7", "I6", "C6",
            "H8", "D5", "F8", "B6", "F4", "H6", "B2", "C3", "E6",
            "F5", "D4", "F9", "E5", "A1", "I9", "F3", "E4" >>,
         << "F1", "E9", "F2", "F6", "A7", "D8", "E8", "H7", "G7",
            "F8", "F4", "I7", "C7", "F5", "F9", "B7", "D7", "F3",
            "D9", "E7" >>,
         << "F1", "E9", "F2", "F6", "D8", "E8", "F7", "I8", "H8",
            "G8", "F4", "F5", "A8", "F9", "C8", "B8", "D7", "F3",
            "D9", "E7" >>,
         << "F1", "E9", "H9", "F2", "F6", "D8", "E8", "F7", "G9",
            "A9", "F8", "F4", "F5", "B9", "C9", "I9", "D7", "F3",
            "D9", "E7" >>,
         << "F1", "H1", "H2", "I2", "G3", "I3", "G9", "G7", "G2",
            "G8", "H3", "C1", "G4", "I1", "A1", "B1", "G5", "D1",
            "G6", "E1" >>,
         << "H1", "G1", "F2", "H2", "I2", "G3", "E2", "A2", "I3",
            "G9", "G7", "G8", "H3", "G4", "I1", "G5", "B2", "G6",
            "D2", "C2" >>,
         << "H1", "D6", "G1", "H2", "B3", "I2", "I3", "G9", "A9",
            "G2", "G7", "H3", "E3", "G8", "F4", "G4", "I1", "D3",
            "G5", "C7", "C3", "A3", "E5", "G6", "B8", "F3" >>,
         << "G1", "H4", "E4", "C4", "G3", "I5", "G9", "G7", "G2",
            "I6", "G8", "H6", "F4", "I4", "G5", "D4", "B4", "A4",
            "G6", "H5" >>,
         << "G1", "H4", "B5", "G3", "I5", "G9", "G7", "G2", "I6",
            "G8", "D5", "H6", "A5", "I4", "G4", "F5", "E5", "G6",
            "H5", "C5" >>,
         << "D6", "G1", "H4", "F6", "G3", "I5", "A6", "G9", "G7",
            "I6", "G2", "C6", "G8", "H6", "B6", "I4", "G4", "G5",
            "E6", "H5" >>,
         << "G1", "H9", "A7", "F6", "G6", "F7", "G3", "H7", "G9",
            "G2", "I8", "H8", "G8", "G4", "I7", "G5", "C7", "B2",
            "C3", "E5", "D4", "B7", "A1", "I9", "D7", "E7" >>,
         << "G1", "H9", "D8", "E8", "G3", "H7", "G9", "G7", "G2",
            "I8", "H8", "F8", "G4", "I7", "G5", "A8", "C8", "G6",
            "B8", "I9" >>,
         << "G1", "E9", "H9", "G3", "H7", "A9", "G2", "I8", "H8",
            "G7", "G8", "G4", "I7", "G5", "F9", "B9", "C9", "G6",
            "I9", "D9" >>,
         << "F1", "H4", "G1", "H9", "H2", "I2", "G3", "I3", "H7",
            "G2", "H8", "C1", "H3", "H6", "I1", "B1", "D1", "A1",
            "E1", "H5" >>,
         << "H1", "D6", "H4", "G1", "H9", "F2", "I2", "B8", "E2",
            "G3", "A2", "I3", "H7", "A9", "G2", "H8", "H3", "H6",
            "F4", "I1", "C7", "B2", "E5", "D2", "H5", "C2" >>,
         << "H1", "H4", "G1", "H9", "H2", "B3", "I2", "G3", "I3",
            "H7", "G2", "H8", "E3", "H6", "I1", "D3", "C3", "A3",
            "F3", "H5" >>,
         << "H1", "E4", "H9", "C4", "H2", "I5", "H7", "I6", "H8",
            "H3", "H6", "F4", "I4", "G4", "G5", "D4", "B4", "A4",
            "G6", "H5" >>,
         << "H1", "H4", "H9", "B5", "H2", "I5", "H7", "I6", "H8",
            "H3", "D5", "H6", "A5", "I4", "G4", "G5", "F5", "E5",
            "G6", "C5" >>,
         << "H1", "D6", "H4", "H9", "F6", "H2", "I5", "H7", "A6",
            "I6", "C6", "H8", "H3", "B6", "I4", "G4", "G5", "E6",
            "G6", "H5" >>,
         << "H1", "H4", "H9", "A7", "H2", "F7", "G9", "G7", "I8",
            "H8", "H3", "G8", "H6", "I7", "C7", "B7", "I9", "D7",
            "H5", "E7" >>,
         << "H1", "H4", "H9", "F6", "D8", "H2", "E8", "H7", "G9",
            "G7", "I8", "H3", "F8", "G8", "H6", "I7", "B2", "A8",
            "C3", "E5", "D4", "C8", "A1", "B8", "I9", "H5" >>,
         << "H1", "H4", "E9", "H2", "H7", "G9", "A9", "G7", "I8",
            "H8", "H3", "G8", "H6", "I7", "F9", "B9", "C9", "I9",
            "H5", "D9" >>,
         << "F1", "H1", "D6", "G1", "H2", "I2", "B8", "G3", "I3",
            "I5", "A9", "G2", "I6", "I8", "C1", "H3", "F4", "I4",
            "B1", "I7", "C7", "D1", "E5", "A1", "E1", "I9" >>,
         << "H1", "G1", "F2", "H2", "E2", "G3", "I3", "I5", "A2",
            "G2", "I6", "I8", "H3", "I4", "I1", "I7", "B2", "D2",
            "I9", "C2" >>,
         << "H1", "G1", "H2", "B3", "I2", "G3", "I5", "G2", "I6",
            "H3", "I8", "E3", "I4", "I1", "I7", "D3", "C3", "A3",
            "I9", "F3" >>,
         << "H4", "E4", "C4", "I2", "I3", "I5", "I6", "I8", "H6",
            "F4", "G4", "I1", "I7", "G5", "D4", "B4", "A4", "G6",
            "I9", "H5" >>,
         << "H4", "B5", "I2", "I3", "I6", "I8", "D5", "H6", "I4",
            "A5", "G4", "I1", "I7", "G5", "F5", "E5", "G6", "I9",
            "H5", "C5" >>,
         << "D6", "H4", "F6", "I2", "I3", "I5", "A6", "I8", "C6",
            "H6", "B6", "I4", "G4", "I1", "I7", "G5", "E6", "G6",
            "I9", "H5" >>,
         << "H9", "A7", "F7", "I2", "I3", "I5", "H7", "G9", "G7",
            "I6", "I8", "H8", "G8", "I4", "I1", "C7", "B7", "I9",
            "D7", "E7" >>,
         << "H9", "D8", "E8", "I2", "I3", "I5", "H7", "G9", "G7",
            "I6", "H8", "G8", "F8", "I4", "I1", "I7", "A8", "C8",
            "B8", "I9" >>,
         << "E9", "H9", "F6", "I2", "I3", "I5", "H7", "G9", "A9",
            "I6", "I8", "H8", "G7", "G8", "I4", "I1", "I7", "B2",
            "C3", "F9", "D4", "E5", "B9", "C9", "A1", "D9" >>
      >>
    >>

\* the orders of the board at hand (a board of one box has no peers)
peers_iterated ==
    IF sq = 2 THEN peers_iterated_4x4
    ELSE IF sq = 3 THEN peers_iterated_9x9
    ELSE [h \in 1..Len(peers_iterated_4x4) |-> [k \in 1..Len(boxes) |-> << >>]]

\* list(peers[s]) in a process with hash seed h
PeerSeq(h, s) == peers_iterated[(h % Len(peers_iterated)) + 1][BoxIndex(s)]

peer_order == [h \in 0..(HashSeeds - 1) |-> [s \in Range(boxes) |-> PeerSeq(h, s)]]

-----------------------------------------------------------------------------
(* Values a call returns *)

RetDict(r) == [kind |-> "dict", ref |-> r]

RetFalse == [kind |-> "False", ref |-> 0]

RetNone == [kind |-> "None", ref |-> 0]

\* truth value of a returned object: a dict of 81 items is true, False and
\* None are false
Truthy(v) == v.kind = "dict"

-----------------------------------------------------------------------------
(* The store threaded through the calls: heap, the global list assignments,
   the value returned by the last call, and (a history component) the trace
   of the writes made through assign_value. *)

\* The program runs call by call, while TLC computes an operator's argument
\* only where it is used.  Computed(st) is true of every store; as a test of
\* each loop below it makes TLC compute the store left by an iteration before
\* the next one starts.  For the same reason the store left by a statement is
\* bound as the one element of a set (s1 \in {...}): it is then computed
\* once, also where TLC evaluates ENABLED.
Computed(st) == st.ret.kind \in {"dict", "False", "None"}

\* dict.copy(): a new object with the same items
dict_copy(h, r) == Append(h, h[r])

\* (mutant) the snapshot appended is the dict itself, not a copy of it
assign_value_alias(st, values, box, value) ==
    LET old == st.heap[values][box]
        h1 == [st.heap EXCEPT ![values][box] = value]
        rec == Len(value) = 1
    IN [heap |-> h1,
        assignments |-> IF rec THEN Append(st.assignments, values)
                        ELSE st.assignments,
        writes |-> Append(st.writes,
                          [ref |-> values, box |-> box, old |-> old, new |-> value,
                           appended |-> IF rec THEN 1 ELSE 0]),
        ret |-> RetDict(values)]

\* (mutant) the write goes to a copy, which is returned: the dict passed in
\* is left as it was
assign_value_copy(st, values, box, value) ==
    LET old == st.heap[values][box]
        new == Len(st.heap) + 1
        h1 == Append(st.heap, [st.heap[values] EXCEPT ![box] = value])
        rec == Len(value) = 1
    IN [heap |-> IF rec THEN dict_copy(h1, new) ELSE h1,
        assignments |-> IF rec THEN Append(st.assignments, Len(h1) + 1)
                        ELSE st.assignments,
        writes |-> Append(st.writes,
                          [ref |-> values, box |-> box, old |-> old, new |-> value,
                           appended |-> IF rec THEN 1 ELSE 0]),
        ret |-> RetDict(new)]

\* lines 95-103
assign_value(st, values, box, value) ==
    LET old == st.heap[values][box]
        h1 == [st.heap EXCEPT ![values][box] = value]
        rec == Len(value) = 1
    IN [heap |-> IF rec THEN dict_copy(h1, values) ELSE h1,
        assignments |-> IF rec THEN Append(st.assignments, Len(h1) + 1)
                        ELSE st.assignments,
        writes |-> Append(st.writes,
                          [ref |-> values, box |-> box, old |-> old, new |-> value,
                           appended |-> IF rec THEN 1 ELSE 0]),
        ret |-> RetDict(values)]

\* (mutant) only a peer that still has every digit loses one
RECURSIVE eliminate_peers_full(_, _, _, _, _)
eliminate_peers_full(st, values, digit, ps, j) ==
    IF j > Len(ps) \/ ~Computed(st) THEN [st EXCEPT !.ret = RetDict(values)]
    ELSE IF Len(st.heap[values][ps[j]]) = Len(cols)
         THEN CHOOSE r \in {eliminate_peers_full(s1, s1.ret.ref, digit, ps, j + 1) :
                  s1 \in {assign_value(st, values, ps[j],
                                     replace(st.heap[values][ps[j]], digit))}} : TRUE
         ELSE eliminate_peers_full(st, values, digit, ps, j + 1)

\* (mutant) eliminate that leaves the solved peers alone
RECURSIVE eliminate_peers_unsolved(_, _, _, _, _)
eliminate_peers_unsolved(st, values, digit, ps, j) ==
    IF j > Len(ps) \/ ~Computed(st) THEN [st EXCEPT !.ret = RetDict(values)]
    ELSE IF Len(st.heap[values][ps[j]]) > 1
         THEN CHOOSE r \in {eliminate_peers_unsolved(s1, s1.ret.ref, digit, ps, j + 1) :
                  s1 \in {assign_value(st, values, ps[j],
                                     replace(st.heap[values][ps[j]], digit))}} : TRUE
         ELSE eliminate_peers_unsolved(st, values, digit, ps, j + 1)

\* lines 175-176: for peer in peers[box]
RECURSIVE eliminate_peers(_, _, _, _, _)
eliminate_peers(st, values, digit, ps, j) ==
    IF j > Len(ps) \/ ~Computed(st) THEN [st EXCEPT !.ret = RetDict(values)]
    ELSE CHOOSE r \in {eliminate_peers(s1, s1.ret.ref, digit, ps, j + 1) :
             s1 \in {assign_value(st, values, ps[j],
                                replace(st.heap[values][ps[j]], digit))}} : TRUE

\* lines 173-176: for box in s_values
RECURSIVE eliminate_boxes(_, _, _, _, _)
eliminate_boxes(st, values, s_values, i, h) ==
    IF i > Len(s_values) \/ ~Computed(st) THEN [st EXCEPT !.ret = RetDict(values)]
    ELSE CHOOSE r \in {eliminate_boxes(s1, s1.ret.ref, s_values, i + 1, h) :
             s1 \in {eliminate_peers(st, values, st.heap[values][s_values[i]],
                                   peer_order[h][s_values[i]], 1)}} : TRUE

\* lines 164-177; h is the hash seed of the process
eliminate(st, values, h) ==
    LET s_values == SelectSeq(boxes, LAMBDA box : Len(st.heap[values][box]) = 1)
    IN eliminate_boxes(st, values, s_values, 1, h)

\* (mutant) naked_twins without the test of line 126: the twins lose their
\* digits too
RECURSIVE twins_boxes_all(_, _, _, _, _, _)
twins_boxes_all(st, values, unit, numbers, number, b) ==
    IF b > Len(unit) \/ ~Computed(st) THEN [st EXCEPT !.ret = RetDict(values)]
    ELSE CHOOSE r \in {twins_boxes_all(s1, s1.ret.ref, unit, numbers, number, b + 1) :
             s1 \in {assign_value(st, values, unit[b],
                                replace(st.heap[values][unit[b]], <<number>>))}} : TRUE

\* lines 125-127: for box in unit
RECURSIVE twins_boxes(_, _, _, _, _, _)
twins_boxes(st, values, unit, numbers, number, b) ==
    IF b > Len(unit) \/ ~Computed(st) THEN [st EXCEPT !.ret = RetDict(values)]
    ELSE IF st.heap[values][unit[b]] # numbers
         THEN CHOOSE r \in {twins_boxes(s1, s1.ret.ref, unit, numbers, number, b + 1) :
                  s1 \in {assign_value(st, values, unit[b],
                                     replace(st.heap[values][unit[b]], <<number>>))}} : TRUE
         ELSE twins_boxes(st, values, unit, numbers, number, b + 1)

\* lines 124-127: for number in numbers
RECURSIVE twins_number(_, _, _, _, _)
twins_number(st, values, unit, numbers, k) ==
    IF k > Len(numbers) \/ ~Computed(st) THEN [st EXCEPT !.ret = RetDict(values)]
    ELSE CHOOSE r \in {twins_number(s1, s1.ret.ref, unit, numbers, k + 1) :
             s1 \in {twins_boxes(st, values, unit, numbers, numbers[k], 1)}} : TRUE

\* lines 123-127: for numbers in twins_num
RECURSIVE twins_numbers(_, _, _, _, _)
twins_numbers(st, values, unit, twins_num, t) ==
    IF t > Len(twins_num) \/ ~Computed(st) THEN [st EXCEPT !.ret = RetDict(values)]
    ELSE CHOOSE r \in {twins_numbers(s1, s1.ret.ref, unit, twins_num, t + 1) :
             s1 \in {twins_number(st, values, unit, twins_num[t], 1)}} : TRUE

\* (mutant) without the test that the value occurs twice in the unit
twins_of_single(d, unit) ==
    LET unit_v == [b \in 1..Len(unit) |-> d[unit[b]]]
    IN SelectSeq(unit_v, LAMBDA data : Len(data) = 2)

\* lines 117-121: the values of the unit that occur twice in it and have two
\* digits, once per occurrence
twins_of(d, unit) ==
    LET unit_v == [b \in 1..Len(unit) |-> d[unit[b]]]
    IN SelectSeq(unit_v, LAMBDA data : count(unit_v, data) = 2 /\ Len(data) = 2)

\* lines 116-127: for unit in unitlist
RECURSIVE twins_units(_, _, _)
twins_units(st, values, u) ==
    IF u > Len(unitlist) \/ ~Computed(st) THEN [st EXCEPT !.ret = RetDict(values)]
    ELSE CHOOSE r \in {twins_units(s1, s1.ret.ref, u + 1) :
             s1 \in {twins_numbers(st, values, unitlist[u],
                                 twins_of(st.heap[values], unitlist[u]), 1)}} : TRUE

\* lines 116-127: the first n iterations of the loop over unitlist
RECURSIVE twins_upto(_, _, _)
twins_upto(st, values, n) ==
    IF n = 0 THEN [st EXCEPT !.ret = RetDict(values)]
    ELSE CHOOSE r \in {twins_numbers(s0, values, unitlist[n],
                                      twins_of(s0.heap[values], unitlist[n]), 1) :
             s0 \in {twins_upto(st, values, n - 1)}} : TRUE

\* lines 106-128
naked_twins(st, values) == twins_units(st, values, 1)

\* (mutant) the digit is written to the first box of the unit
RECURSIVE choice_digits_first(_, _, _, _)
choice_digits_first(st, values, unit, d) ==
    IF d > Len(cols) \/ ~Computed(st) THEN [st EXCEPT !.ret = RetDict(values)]
    ELSE LET dplaces == SelectSeq(unit, LAMBDA box :
                                      contains(st.heap[values][box], cols[d]))
         IN IF Len(dplaces) = 1
            THEN CHOOSE r \in {choice_digits_first(s1, s1.ret.ref, unit, d + 1) :
                     s1 \in {assign_value(st, values, unit[1], <<cols[d]>>)}} : TRUE
            ELSE choice_digits_first(st, values, unit, d + 1)

\* lines 188-191: for digit in cols
RECURSIVE choice_digits(_, _, _, _)
choice_digits(st, values, unit, d) ==
    IF d > Len(cols) \/ ~Computed(st) THEN [st EXCEPT !.ret = RetDict(values)]
    ELSE LET dplaces == SelectSeq(unit, LAMBDA box :
                                      contains(st.heap[values][box], cols[d]))
         IN IF Len(dplaces) = 1
            THEN CHOOSE r \in {choice_digits(s1, s1.ret.ref, unit, d + 1) :
                     s1 \in {assign_value(st, values, dplaces[1], <<cols[d]>>)}} : TRUE
            ELSE choice_digits(st, values, unit, d + 1)

\* lines 187-191: for unit in unitlist
RECURSIVE choice_units(_, _, _)
choice_units(st, values, u) ==
    IF u > Len(unitlist) \/ ~Computed(st) THEN [st EXCEPT !.ret = RetDict(values)]
    ELSE CHOOSE r \in {choice_units(s1, s1.ret.ref, u + 1) :
             s1 \in {choice_digits(st, values, unitlist[u], 1)}} : TRUE

\* lines 180-192
only_choice(st, values) == choice_units(st, values, 1)

\* (mutant) every box counts as solved, so that the first pass is the last
solved_count_all(d) == Cardinality(Range(boxes))

\* len([box for box in values.keys() if len(values[box]) == 1])
solved_count(d) == Cardinality({box \in Range(boxes) : Len(d[box]) = 1})

\* (mutant) reduce_puzzle without the test of line 210
empty_count_none(d) == 0

\* len([box for box in values.keys() if len(values[box]) == 0])
empty_count(d) == Cardinality({box \in Range(boxes) : Len(d[box]) = 0})

\* lines 195-212
RECURSIVE reduce_puzzle(_, _, _)
\* lines 208-212, and the next pass of the loop of line 203
reduce_pass_end(solved_values_before, st, h) ==
    LET values == st.ret.ref
        solved_values_after == solved_count(st.heap[values])
        stalled == solved_values_before = solved_values_after
    IN IF empty_count(st.heap[values]) # 0 THEN [st EXCEPT !.ret = RetFalse]
       ELSE IF stalled THEN st
       ELSE reduce_puzzle(st, values, h)

\* line 207
reduce_only_choice(solved_values_before, st, h) ==
    reduce_pass_end(solved_values_before, only_choice(st, st.ret.ref), h)

\* line 206
reduce_naked_twins(solved_values_before, st, h) ==
    reduce_only_choice(solved_values_before, naked_twins(st, st.ret.ref), h)

\* lines 195-212
reduce_puzzle(st, values, h) ==
    reduce_naked_twins(solved_count(st.heap[values]), eliminate(st, values, h), h)

\* (mutant) any() for all() in line 228
all_solved_any(d) == \E s \in Range(boxes) : Len(d[s]) = 1

\* line 228: all(len(values[s]) == 1 for s in boxes)
all_solved(d) == \A s \in Range(boxes) : Len(d[s]) = 1

\* (mutant) the first unsolved box, whatever the number of its candidates
min_box_first(d) ==
    CHOOSE s \in Range(boxes) :
        /\ Len(d[s]) > 1
        /\ \A t \in Range(boxes) : Len(d[t]) > 1 => BoxIndex(s) <= BoxIndex(t)

\* line 230: min((len(values[s]), s) for s in boxes if len(values[s]) > 1),
\* the pairs compared by length first and then by label
min_box(d) ==
    CHOOSE s \in Range(boxes) :
        /\ Len(d[s]) > 1
        /\ \A t \in Range(boxes) :
               Len(d[t]) > 1 =>
                   \/ Len(d[s]) < Len(d[t])
                   \/ Len(d[s]) = Len(d[t]) /\ BoxIndex(s) <= BoxIndex(t)

\* (mutant) any character that is not a digit stands for an empty box
RECURSIVE grid_chars_lenient(_, _)
grid_chars_lenient(grid, k) ==
    IF k > Len(grid) THEN << >>
    ELSE (IF contains(cols, grid[k]) THEN << <<grid[k]>> >> ELSE << cols >>)
         \o grid_chars_lenient(grid, k + 1)

\* lines 138-145: the characters kept, in order; an item of the result is a
\* string: the digit itself, or all of cols for '.'
RECURSIVE grid_chars(_, _)
grid_chars(grid, k) ==
    IF k > Len(grid) THEN << >>
    ELSE (IF contains(cols, grid[k]) THEN << <<grid[k]>> >> ELSE << >>)
         \o (IF grid[k] = "." THEN << cols >> ELSE << >>)
         \o grid_chars(grid, k + 1)

\* line 144: assert len(chars) == 81, the number of boxes
grid_ok(grid) == Len(grid_chars(grid, 1)) = Len(boxes)

\* line 145: dict(zip(boxes, chars))
grid_values(grid) ==
    LET chars == grid_chars(grid, 1)
    IN [s \in Range(boxes) |-> chars[BoxIndex(s)]]


-----------------------------------------------------------------------------
(* Input grids *)

EmptyGrid == [k \in 1..Len(boxes) |-> "."]

\* the well-formed grids with at most k clues
RECURSIVE Grids(_)
Grids(k) ==
    IF k = 0 THEN {EmptyGrid}
    ELSE LET G == Grids(k - 1)
         IN G \cup {[g EXCEPT ![p] = d] : g \in G, p \in 1..Len(boxes),
                                             d \in Range(SubSeq(S, 1, ClueDigits))}

\* strings of another length or with a character that is neither a digit of
\* cols nor '.', made from the grids with at most one clue
OddStrings ==
    LET G == Grids(1)
    IN {SubSeq(g, 1, Len(g) - 1) : g \in G}
       \cup {Append(g, c) : g \in G, c \in {".", "X"}}
       \cup {<<"X">> \o g : g \in G}
       \cup {[g EXCEPT ![1] = "X"] : g \in G}

Inputs == Grids(MaxClues) \cup OddStrings

-----------------------------------------------------------------------------
(* The program: solve(input), one step per rule application and per step of
   search.  stack holds the activations of search, innermost last. *)

Store == [heap |-> heap, assignments |-> assignments, writes |-> << >>, ret |-> ret]

\* the locals of an activation of search: values (a dict, or False once
\* reduce_puzzle failed), the position in reduce_puzzle and in search, and
\* the loop of lines 231-236 over the string vs = values[s]
Frame(v) ==
    [values |-> v, pc |-> "eliminate", before |-> 0, s |-> "", vs |-> << >>, i |-> 0]

top == stack[Len(stack)]

SetTop(f) == [stack EXCEPT ![Len(stack)] = f]

NoRun == [kind |-> "none", grid |-> << >>, log |-> << >>]

\* no planning problem has been constructed
NoAction == [name |-> << >>, precond_pos |-> << >>, precond_neg |-> << >>,
             effect_add |-> << >>, effect_rem |-> << >>]

NoPlanning ==
    /\ problem = 0
    /\ state_TF = << >>
    /\ applied = NoAction

Init ==
    /\ input \in Inputs
    /\ seed \in 0..(HashSeeds - 1)
    /\ heap = << >>
    /\ assignments = << >>
    /\ stack = << >>
    /\ ret = RetNone
    /\ pc = "start"
    /\ writes = << >>
    /\ run = 1
    /\ first = NoRun
    /\ NoPlanning

\* lines 239-248: search(grid_values(grid)); a failed assert raises
Solve ==
    /\ pc = "start"
    /\ IF grid_ok(input)
       THEN /\ heap' = Append(heap, grid_values(input))
            /\ stack' = << Frame(RetDict(Len(heap) + 1)) >>
            /\ pc' = "running"
       ELSE /\ pc' = "raised"
            /\ UNCHANGED <<heap, stack>>
    /\ writes' = << >>
    /\ UNCHANGED <<input, seed, assignments, ret, run, first, cargo_vars>>

\* (mutant) the activation that returns stays on the stack
Return_stay(v) ==
    /\ stack' = stack
    /\ ret' = v
    /\ pc' = pc

\* a call returns v to its caller, or to solve's caller
Return(v) ==
    /\ stack' = SubSeq(stack, 1, Len(stack) - 1)
    /\ ret' = v
    /\ pc' = IF Len(stack) = 1 THEN "done" ELSE pc

\* lines 204-205
Eliminate ==
    /\ pc = "running" /\ top.pc = "eliminate"
    /\ \E st \in {eliminate(Store, top.values.ref, seed)} :
          /\ heap' = st.heap
          /\ assignments' = st.assignments
          /\ writes' = st.writes
          /\ stack' = SetTop([top EXCEPT !.before = solved_count(heap[top.values.ref]),
                                         !.values = st.ret,
                                         !.pc = "naked_twins"])
    /\ UNCHANGED <<input, seed, ret, pc, run, first, cargo_vars>>

\* line 206
NakedTwins ==
    /\ pc = "running" /\ top.pc = "naked_twins"
    /\ \E st \in {naked_twins(Store, top.values.ref)} :
          /\ heap' = st.heap
          /\ assignments' = st.assignments
          /\ writes' = st.writes
          /\ stack' = SetTop([top EXCEPT !.values = st.ret, !.pc = "only_choice"])
    /\ UNCHANGED <<input, seed, ret, pc, run, first, cargo_vars>>

\* line 207
OnlyChoice ==
    /\ pc = "running" /\ top.pc = "only_choice"
    /\ \E st \in {only_choice(Store, top.values.ref)} :
          /\ heap' = st.heap
          /\ assignments' = st.assignments
          /\ writes' = st.writes
          /\ stack' = SetTop([top EXCEPT !.values = st.ret, !.pc = "stalled"])
    /\ UNCHANGED <<input, seed, ret, pc, run, first, cargo_vars>>

\* lines 208-212 and the loop test of line 203
PassEnd ==
    /\ pc = "running" /\ top.pc = "stalled"
    /\ LET d == heap[top.values.ref]
           solved_values_after == solved_count(d)
           stalled == top.before = solved_values_after
       IN stack' = SetTop(IF empty_count(d) # 0
                          THEN [top EXCEPT !.values = RetFalse, !.pc = "reduced"]
                          ELSE IF stalled THEN [top EXCEPT !.pc = "reduced"]
                          ELSE [top EXCEPT !.pc = "eliminate"])
    /\ writes' = << >>
    /\ UNCHANGED <<input, seed, heap, assignments, ret, pc, run, first, cargo_vars>>

\* lines 226-227: if not values: return values
ReturnFailed ==
    /\ pc = "running" /\ top.pc = "reduced"
    /\ ~Truthy(top.values)
    /\ Return(top.values)
    /\ writes' = << >>
    /\ UNCHANGED <<input, seed, heap, assignments, run, first, cargo_vars>>

\* lines 228-229
ReturnSolved ==
    /\ pc = "running" /\ top.pc = "reduced"
    /\ Truthy(top.values)
    /\ all_solved(heap[top.values.ref])
    /\ Return(top.values)
    /\ writes' = << >>
    /\ UNCHANGED <<input, seed, heap, assignments, run, first, cargo_vars>>

\* lines 230-231: the box to branch on and the string iterated
Choose ==
    /\ pc = "running" /\ top.pc = "reduced"
    /\ Truthy(top.values)
    /\ ~all_solved(heap[top.values.ref])
    /\ LET s == min_box(heap[top.values.ref])
       IN stack' = SetTop([top EXCEPT !.s = s, !.vs = heap[top.values.ref][s],
                                      !.i = 1, !.pc = "loop"])
    /\ writes' = << >>
    /\ UNCHANGED <<input, seed, heap, assignments, ret, pc, run, first, cargo_vars>>

\* (mutant) without the copy of line 232: the digit is assigned to the grid
\* of the caller
Branch_alias ==
    /\ pc = "running" /\ top.pc = "loop"
    /\ top.i <= Len(top.vs)
    /\ \E st \in {assign_value(Store, top.values.ref, top.s, <<top.vs[top.i]>>)} :
          /\ heap' = st.heap
          /\ assignments' = st.assignments
          /\ writes' = st.writes
          /\ stack' = Append(SetTop([top EXCEPT !.pc = "attempt"]), Frame(st.ret))
    /\ UNCHANGED <<input, seed, ret, pc, run, first, cargo_vars>>

\* (mutant) without the assignment of line 233: search is called on an
\* unchanged copy
Branch_unassigned ==
    /\ pc = "running" /\ top.pc = "loop"
    /\ top.i <= Len(top.vs)
    /\ LET copied == [Store EXCEPT !.heap = dict_copy(heap, top.values.ref)]
           new_sudoku == Len(heap) + 1
           st == [copied EXCEPT !.ret = RetDict(new_sudoku)]
       IN /\ heap' = st.heap
          /\ assignments' = st.assignments
          /\ writes' = st.writes
          /\ stack' = Append(SetTop([top EXCEPT !.pc = "attempt"]), Frame(st.ret))
    /\ UNCHANGED <<input, seed, ret, pc, run, first, cargo_vars>>

\* lines 232-234: copy, assign, and call search on the copy
Branch ==
    /\ pc = "running" /\ top.pc = "loop"
    /\ top.i <= Len(top.vs)
    /\ LET copied == [Store EXCEPT !.heap = dict_copy(heap, top.values.ref)]
           new_sudoku == Len(heap) + 1
           st == assign_value(copied, new_sudoku, top.s, <<top.vs[top.i]>>)
       IN /\ heap' = st.heap
          /\ assignments' = st.assignments
          /\ writes' = st.writes
          /\ stack' = Append(SetTop([top EXCEPT !.pc = "attempt"]), Frame(st.ret))
    /\ UNCHANGED <<input, seed, ret, pc, run, first, cargo_vars>>

\* (mutant) a successful attempt is dropped and the loop goes on
ReturnAttempt_continue ==
    /\ pc = "running" /\ top.pc = "attempt"
    /\ Truthy(ret)
    /\ stack' = SetTop([top EXCEPT !.i = top.i + 1, !.pc = "loop"])
    /\ writes' = << >>
    /\ UNCHANGED <<input, seed, heap, assignments, ret, pc, run, first, cargo_vars>>

\* lines 235-236: if attempt: return attempt
ReturnAttempt ==
    /\ pc = "running" /\ top.pc = "attempt"
    /\ Truthy(ret)
    /\ Return(ret)
    /\ writes' = << >>
    /\ UNCHANGED <<input, seed, heap, assignments, run, first, cargo_vars>>

\* line 231: the next value of the loop
NextValue ==
    /\ pc = "running" /\ top.pc = "attempt"
    /\ ~Truthy(ret)
    /\ stack' = SetTop([top EXCEPT !.i = top.i + 1, !.pc = "loop"])
    /\ writes' = << >>
    /\ UNCHANGED <<input, seed, heap, assignments, ret, pc, run, first, cargo_vars>>

\* the loop of line 231 ends and search ends without a return statement
Exhausted ==
    /\ pc = "running" /\ top.pc = "loop"
    /\ top.i > Len(top.vs)
    /\ Return(RetNone)
    /\ writes' = << >>
    /\ UNCHANGED <<input, seed, heap, assignments, run, first, cargo_vars>>

Next ==
    \/ Solve
    \/ Eliminate
    \/ NakedTwins
    \/ OnlyChoice
    \/ PassEnd
    \/ ReturnFailed
    \/ ReturnSolved
    \/ Choose
    \/ Branch
    \/ ReturnAttempt
    \/ NextValue
    \/ Exhausted

Spec == Init /\ [][Next]_vars

-----------------------------------------------------------------------------
(* Two calls of solve on the same input: the second in the same process,
   where the module's list assignments (line 7) is what the first call left,
   or in a new process, where the module is loaded again and the iteration
   order of the sets of peers (line 92) may be another. *)

\* the grids with clues in the rows numbered in R only
ClueRows(R) ==
    {g \in Grids(MaxClues) :
        \A p \in 1..Len(boxes) : g[p] # "." => ((p - 1) \div N) + 1 \in R}

\* clues in the first and the last row
RunInputs == ClueRows({1, N})

InitRuns ==
    /\ input \in RunInputs
    /\ seed \in 0..(HashSeeds - 1)
    /\ heap = << >>
    /\ assignments = << >>
    /\ stack = << >>
    /\ ret = RetNone
    /\ pc = "start"
    /\ writes = << >>
    /\ run = 1
    /\ first = NoRun
    /\ NoPlanning

\* what a caller sees after a call of solve: the value returned and the
\* list assignments
Outcome ==
    [kind |-> ret.kind,
     grid |-> IF Truthy(ret) THEN heap[ret.ref] ELSE << >>,
     log |-> [k \in DOMAIN assignments |-> heap[assignments[k]]]]

\* solve(input) is called again in the same process
Rerun ==
    /\ pc = "done" /\ run = 1
    /\ first' = Outcome
    /\ run' = 2
    /\ pc' = "start"
    /\ ret' = RetNone
    /\ writes' = << >>
    /\ UNCHANGED <<input, seed, heap, assignments, stack, cargo_vars>>

\* solve(input) is called in a new process
Restart ==
    /\ pc = "done" /\ run = 1
    /\ first' = Outcome
    /\ run' = 2
    /\ pc' = "start"
    /\ ret' = RetNone
    /\ writes' = << >>
    /\ heap' = << >>
    /\ assignments' = << >>
    /\ seed' \in 0..(HashSeeds - 1)
    /\ UNCHANGED <<input, stack, cargo_vars>>

NextRuns ==
    \/ Next
    \/ Rerun
    \/ Restart

SpecRuns == InitRuns /\ [][NextRuns]_vars

-----------------------------------------------------------------------------
(* One call of solve, run to its end: the interpreter takes every step that
   can be taken. *)

\* the strings that do not parse, and the grids with clues in the second and
\* in the last but one box only
FairInputs ==
    OddStrings \cup
    {g \in Grids(MaxClues) :
        \A p \in 1..Len(boxes) : g[p] # "." => p \in {2, Len(boxes) - 1}}

InitFair ==
    /\ input \in FairInputs
    /\ seed \in 0..(HashSeeds - 1)
    /\ heap = << >>
    /\ assignments = << >>
    /\ stack = << >>
    /\ ret = RetNone
    /\ pc = "start"
    /\ writes = << >>
    /\ run = 1
    /\ first = NoRun
    /\ NoPlanning

SpecFair == InitFair /\ [][Next]_vars /\ WF_vars(Next)

-----------------------------------------------------------------------------
(* reduce_puzzle applied to the grids search applies it to, and applied
   again to the grid it returned. *)

\* clues in the first two rows
ReduceInputs == ClueRows({1, 2})

InitReduce ==
    /\ input \in ReduceInputs
    /\ seed \in 0..(HashSeeds - 1)
    /\ heap = << >>
    /\ assignments = << >>
    /\ stack = << >>
    /\ ret = RetNone
    /\ pc = "start"
    /\ writes = << >>
    /\ run = 1
    /\ first = NoRun
    /\ NoPlanning

\* lines 131-145
ParseGrid ==
    /\ pc = "start"
    /\ grid_ok(input)
    /\ heap' = Append(heap, grid_values(input))
    /\ ret' = RetDict(Len(heap) + 1)
    /\ pc' = "parsed"
    /\ UNCHANGED <<input, seed, assignments, stack, writes, run, first, cargo_vars>>

\* lines 195-212, on a parsed grid or on the copy search made of a grid
ReduceOnce ==
    /\ pc = "parsed"
    /\ LET st == reduce_puzzle(Store, ret.ref, seed)
       IN /\ heap' = st.heap
          /\ assignments' = st.assignments
          /\ writes' = st.writes
          /\ ret' = st.ret
          /\ first' = [kind |-> st.ret.kind,
                       grid |-> IF Truthy(st.ret) THEN st.heap[st.ret.ref] ELSE << >>,
                       log |-> << >>]
    /\ pc' = "once"
    /\ run' = 1
    /\ UNCHANGED <<input, seed, stack, cargo_vars>>

\* lines 195-212, on the grid reduce_puzzle returned
ReduceTwice ==
    /\ pc = "once"
    /\ Truthy(ret)
    /\ LET st == reduce_puzzle(Store, ret.ref, seed)
       IN /\ heap' = st.heap
          /\ assignments' = st.assignments
          /\ writes' = st.writes
          /\ ret' = st.ret
    /\ pc' = "twice"
    /\ run' = 2
    /\ UNCHANGED <<input, seed, stack, first, cargo_vars>>

\* lines 230-233: search copies the reduced grid and assigns one of the
\* candidates of the chosen box to the copy
BranchGrid ==
    /\ pc = "once"
    /\ Truthy(ret)
    /\ ~all_solved(heap[ret.ref])
    /\ \E i \in 1..N :
         LET s == min_box(heap[ret.ref])
             vs == heap[ret.ref][s]
             copied == [Store EXCEPT !.heap = dict_copy(heap, ret.ref)]
         IN /\ i <= Len(vs)
            /\ LET st == assign_value(copied, Len(heap) + 1, s, <<vs[i]>>)
               IN /\ heap' = st.heap
                  /\ assignments' = st.assignments
                  /\ writes' = st.writes
                  /\ ret' = st.ret
    /\ pc' = "parsed"
    /\ UNCHANGED <<input, seed, stack, run, first, cargo_vars>>

NextReduce ==
    \/ ParseGrid
    \/ ReduceOnce
    \/ ReduceTwice
    \/ BranchGrid

SpecReduce == InitReduce /\ [][NextReduce]_vars

-----------------------------------------------------------------------------
(* The air cargo planning problem of AIND-Planning/my_air_cargo_problems.py.
   A fluent or an action name is the tuple of its operator and arguments, a
   list is a sequence, and a state is a sequence of "T" and "F", one for each
   fluent of the state map.  The helpers the file imports (expr, Action,
   FluentState, encode_state, decode_state, PropKB) are not part of the
   sources at hand and are modelled from the way the file uses them. *)

\* the problems air_cargo_p1 .. air_cargo_p<CargoProblems> are explored
CargoProblems == 2

\* expr("Op({}, {})".format(x, y)): the expression Op(x, y)
expr(op, args) == <<op>> \o args

\* Action(name, [precond_pos, precond_neg], [effect_add, effect_rem])
Action(name, precond, effect) ==
    [name |-> name, precond_pos |-> precond[1], precond_neg |-> precond[2],
     effect_add |-> effect[1], effect_rem |-> effect[2]]

FluentState(pos_list, neg_list) == [pos |-> pos_list, neg |-> neg_list]

\* the string with "T" where the fluent of the map is in fs.pos, "F" elsewhere
encode_state(fs, fluent_map) ==
    [idx \in 1..Len(fluent_map) |->
        IF fluent_map[idx] \in Range(fs.pos) THEN "T" ELSE "F"]

\* the fluents of the map at a "T" go to pos, the others to neg, in map order
decode_state(state, fluent_map) ==
    LET indices == [idx \in 1..Len(state) |-> idx]
        at_T    == SelectSeq(indices, LAMBDA idx : state[idx] = "T")
        at_F    == SelectSeq(indices, LAMBDA idx : state[idx] # "T")
    IN FluentState([k \in 1..Len(at_T) |-> fluent_map[at_T[k]]],
                   [k \in 1..Len(at_F) |-> fluent_map[at_F[k]]])

\* PropKB().tell(fs.pos_sentence()): the clauses are the positive fluents
kb_clauses(state, fluent_map) == Range(decode_state(state, fluent_map).pos)

\* list(itertools.product(xs, ys, zs)): the last list varies fastest
product(xs, ys, zs) ==
    [k \in 1..(Len(xs) * Len(ys) * Len(zs)) |->
        << xs[((k - 1) \div (Len(ys) * Len(zs))) + 1],
           ys[(((k - 1) \div Len(zs)) % Len(ys)) + 1],
           zs[((k - 1) % Len(zs)) + 1] >>]

\* lines 58-89 with type = 'load'
load_actions(cargos, planes, airports) ==
    LET inputs == product(cargos, planes, airports)
    IN [k \in 1..Len(inputs) |->
           LET cargo   == inputs[k][1]
               plane   == inputs[k][2]
               airport == inputs[k][3]
               negative_conds == << >>
               positive_conds == << expr("At", <<cargo, airport>>),
                                    expr("At", <<plane, airport>>) >>
               add_action     == << expr("In", <<cargo, plane>>) >>
               remove_action  == << expr("At", <<cargo, airport>>) >>
           IN Action(expr("Load", <<cargo, plane, airport>>),
                     <<positive_conds, negative_conds>>,
                     <<add_action, remove_action>>)]

\* lines 91-96 and 79-87: load_actions(type='unload')
unload_actions(cargos, planes, airports) ==
    LET inputs == product(cargos, planes, airports)
    IN [k \in 1..Len(inputs) |->
           LET cargo   == inputs[k][1]
               plane   == inputs[k][2]
               airport == inputs[k][3]
               negative_conds == << >>
               positive_conds == << expr("In", <<cargo, plane>>),
                                    expr("At", <<plane, airport>>) >>
               add_action     == << expr("At", <<cargo, airport>>) >>
               remove_action  == << expr("In", <<cargo, plane>>) >>
           IN Action(expr("Unload", <<cargo, plane, airport>>),
                     <<positive_conds, negative_conds>>,
                     <<add_action, remove_action>>)]

\* lines 98-117: for fr, for to, if fr != to, for p
fly_actions(planes, airports) ==
    LET legs == SelectSeq(product(airports, airports, planes),
                          LAMBDA leg : leg[1] # leg[2])
    IN [k \in 1..Len(legs) |->
           LET fr == legs[k][1]
               to == legs[k][2]
               p  == legs[k][3]
               precond_pos == << expr("At", <<p, fr>>) >>
               precond_neg == << >>
               effect_add  == << expr("At", <<p, to>>) >>
               effect_rem  == << expr("At", <<p, fr>>) >>
           IN Action(expr("Fly", <<p, fr, to>>),
                     <<precond_pos, precond_neg>>,
                     <<effect_add, effect_rem>>)]

\* line 119
get_actions(cargos, planes, airports) ==
    load_actions(cargos, planes, airports)
        \o unload_actions(cargos, planes, airports)
        \o fly_actions(planes, airports)

\* lines 18-38: the constructor
AirCargoProblem(cargos, planes, airports, initial, goal) ==
    LET state_map == initial.pos \o initial.neg
    IN [state_map        |-> state_map,
        initial_state_TF |-> encode_state(initial, state_map),
        goal             |-> goal,
        cargos           |-> cargos,
        planes           |-> planes,
        airports         |-> airports,
        actions_list     |-> get_actions(cargos, planes, airports)]

\* lines 121-159: the actions whose positive preconditions are all clauses
\* of the knowledge base and whose negative preconditions are not
actions(self, state) ==
    LET kb == kb_clauses(state, self.state_map)
        is_possible(action) ==
            /\ \A clause \in Range(action.precond_pos) : clause \in kb
            /\ \A clause \in Range(action.precond_neg) : clause \notin kb
    IN SelectSeq(self.actions_list, is_possible)

\* the loops of lines 176-178 and 182-184: append the fluents not yet listed
RECURSIVE append_new(_, _, _)
append_new(list, fluents, j) ==
    IF j > Len(fluents) THEN list
    ELSE append_new(IF fluents[j] \in Range(list) THEN list
                    ELSE Append(list, fluents[j]),
                    fluents, j + 1)

\* lines 170-184: the FluentState that result builds
new_state(self, state, action) ==
    LET old_state == decode_state(state, self.state_map)
        kept_pos  == SelectSeq(old_state.pos,
                               LAMBDA fluent : fluent \notin Range(action.effect_rem))
        kept_neg  == SelectSeq(old_state.neg,
                               LAMBDA fluent : fluent \notin Range(action.effect_add))
    IN FluentState(append_new(kept_pos, action.effect_add, 1),
                   append_new(kept_neg, action.effect_rem, 1))

\* (mutant) without the test of line 174: a removed fluent stays positive
result_keep_removed(self, state, action) ==
    LET old_state == decode_state(state, self.state_map)
    IN encode_state(FluentState(append_new(old_state.pos, action.effect_add, 1),
                                new_state(self, state, action).neg),
                    self.state_map)

\* lines 161-186
result(self, state, action) ==
    encode_state(new_state(self, state, action), self.state_map)

\* lines 248-270
air_cargo_p1 ==
    LET cargos   == <<"C1", "C2">>
        planes   == <<"P1", "P2">>
        airports == <<"JFK", "SFO">>
        pos == << expr("At", <<"C1", "SFO">>),
                  expr("At", <<"C2", "JFK">>),
                  expr("At", <<"P1", "SFO">>),
                  expr("At", <<"P2", "JFK">>) >>
        neg == << expr("At", <<"C2", "SFO">>),
                  expr("In", <<"C2", "P1">>),
                  expr("In", <<"C2", "P2">>),
                  expr("At", <<"C1", "JFK">>),
                  expr("In", <<"C1", "P1">>),
                  expr("In", <<"C1", "P2">>),
                  expr("At", <<"P1", "JFK">>),
                  expr("At", <<"P2", "SFO">>) >>
        init == FluentState(pos, neg)
        goal == << expr("At", <<"C1", "JFK">>),
                   expr("At", <<"C2", "SFO">>) >>
    IN AirCargoProblem(cargos, planes, airports, init, goal)

\* lines 273-316
air_cargo_p2 ==
    LET cargos   == <<"C1", "C2", "C3">>
        planes   == <<"P1", "P2", "P3">>
        airports == <<"JFK", "SFO", "ATL">>
        pos == << expr("At", <<"C1", "SFO">>),
                  expr("At", <<"C2", "JFK">>),
                  expr("At", <<"C3", "ATL">>),
                  expr("At", <<"P1", "SFO">>),
                  expr("At", <<"P2", "JFK">>),
                  expr("At", <<"P3", "ATL">>) >>
        neg == << expr("At", <<"C1", "JFK">>), expr("At", <<"C1", "ATL">>),
                  expr("In", <<"C1", "P1">>), expr("In", <<"C1", "P2">>), expr("In", <<"C1", "P3">>),
                  expr("At", <<"C2", "SFO">>), expr("At", <<"C2", "ATL">>),
                  expr("In", <<"C2", "P1">>), expr("In", <<"C2", "P2">>), expr("In", <<"C2", "P3">>),
                  expr("At", <<"C3", "SFO">>), expr("At", <<"C3", "JFK">>),
                  expr("In", <<"C3", "P1">>), expr("In", <<"C3", "P2">>), expr("In", <<"C3", "P3">>),
                  expr("At", <<"P1", "JFK">>), expr("At", <<"P1", "ATL">>),
                  expr("At", <<"P2", "SFO">>), expr("At", <<"P2", "ATL">>),
                  expr("At", <<"P3", "JFK">>), expr("At", <<"P3", "SFO">>) >>
        init == FluentState(pos, neg)
        goal == << expr("At", <<"C1", "JFK">>),
                   expr("At", <<"C2", "SFO">>),
                   expr("At", <<"C3", "SFO">>) >>
    IN AirCargoProblem(cargos, planes, airports, init, goal)

\* lines 319-361
air_cargo_p3 ==
    LET cargos   == <<"C1", "C2", "C3", "C4">>
        planes   == <<"P1", "P2">>
        airports == <<"JFK", "SFO", "ATL", "ORD">>
        pos == << expr("At", <<"C1", "SFO">>),
                  expr("At", <<"C2", "JFK">>),
                  expr("At", <<"C3", "ATL">>),
                  expr("At", <<"C4", "ORD">>),
                  expr("At", <<"P1", "SFO">>),
                  expr("At", <<"P2", "JFK">>) >>
        neg == << expr("At", <<"C1", "JFK">>), expr("At", <<"C1", "ATL">>),
                  expr("At", <<"C1", "ORD">>), expr("In", <<"C1", "P1">>), expr("In", <<"C1", "P2">>),
                  expr("At", <<"C2", "SFO">>), expr("At", <<"C2", "ATL">>),
                  expr("At", <<"C2", "ORD">>), expr("In", <<"C2", "P1">>), expr("In", <<"C2", "P2">>),
                  expr("At", <<"C3", "SFO">>), expr("At", <<"C3", "JFK">>),
                  expr("At", <<"C3", "ORD">>), expr("In", <<"C3", "P1">>), expr("In", <<"C3", "P2">>),
                  expr("At", <<"C4", "SFO">>), expr("At", <<"C4", "JFK">>),
                  expr("At", <<"C4", "ATL">>), expr("In", <<"C4", "P1">>), expr("In", <<"C4", "P2">>),
                  expr("At", <<"P1", "JFK">>), expr("At", <<"P1", "ATL">>), expr("At", <<"P1", "ORD">>),
                  expr("At", <<"P2", "SFO">>), expr("At", <<"P2", "ATL">>), expr("At", <<"P2", "ORD">>) >>
        init == FluentState(pos, neg)
        goal == << expr("At", <<"C1", "JFK">>),
                   expr("At", <<"C3", "JFK">>),
                   expr("At", <<"C2", "SFO">>),
                   expr("At", <<"C4", "SFO">>) >>
    IN AirCargoProblem(cargos, planes, airports, init, goal)

\* the problems of the file, in the order it defines them
Problems == << air_cargo_p1, air_cargo_p2, air_cargo_p3 >>

\* the problem being searched
searched == Problems[problem]

\* a problem is constructed; the search starts from its initial state
InitCargo ==
    /\ problem \in 1..(IF CargoProblems < Len(Problems) THEN CargoProblems ELSE Len(Problems))
    /\ state_TF = Problems[problem].initial_state_TF
    /\ applied = NoAction
    /\ input = << >>
    /\ seed = 0
    /\ heap = << >>
    /\ assignments = << >>
    /\ stack = << >>
    /\ ret = RetNone
    /\ pc = "planning"
    /\ writes = << >>
    /\ run = 1
    /\ first = NoRun

\* a search expands a node: result(state, action) for an action of
\* actions(state)
Result ==
    /\ pc = "planning"
    /\ \E action \in Range(actions(searched, state_TF)) :
          /\ state_TF' = result(searched, state_TF, action)
          /\ applied' = action
    /\ UNCHANGED <<input, seed, heap, assignments, stack, ret, pc, writes, run, first, problem>>

NextCargo == Result

SpecCargo == InitCargo /\ [][NextCargo]_vars

-----------------------------------------------------------------------------
(* What the claims are stated with *)

\* the digits of a string, as a set
Digits(str) == Range(str)

\* every box has exactly one digit and every unit holds every digit exactly once
IsSolution(d) ==
    /\ \A s \in Range(boxes) : Len(d[s]) = 1
    /\ \A u \in 1..Len(unitlist) : \A c \in Range(S) :
           Cardinality({b \in 1..Len(unitlist[u]) : d[unitlist[u][b]] = <<c>>}) = 1

\* two distinct boxes lie in one unit
SameUnit(s, t) == s # t /\ \E u \in 1..Len(unitlist) : {s, t} \subseteq Range(unitlist[u])

related == [s \in Range(boxes) |-> {t \in Range(boxes) : SameUnit(s, t)}]

\* the clues of a well-formed input, box by box: one digit, or all for '.'
Clues == [s \in Range(boxes) |->
            LET c == SelectSeq(input, LAMBDA x : x \in Range(S) \cup {"."})[BoxIndex(s)]
            IN IF c = "." THEN S ELSE <<c>>]

\* g gives a digit to some boxes; the boxes of todo can be given digits among
\* the candidates of `clues` so that no two boxes of a unit hold the same digit
RECURSIVE Extends(_, _, _)
Extends(clues, g, todo) ==
    IF todo = << >> THEN TRUE
    ELSE LET s == Head(todo)
         IN \E c \in Digits(clues[s]) :
                /\ \A t \in (DOMAIN g) \cap related[s] : g[t] # c
                /\ Extends(clues, (s :> c) @@ g, Tail(todo))

\* the clues have a completion in which every unit holds every digit once
Satisfiable ==
    LET fixed == {s \in Range(boxes) : Len(Clues[s]) = 1}
        g0 == [s \in fixed |-> Clues[s][1]]
    IN /\ \A s \in fixed : \A t \in fixed \cap related[s] : g0[s] # g0[t]
       /\ Extends(Clues, g0, SelectSeq(boxes, LAMBDA s : s \notin fixed))

\* C1: a grid returned by search (hence by solve) as a success has one digit
\* in every box, and every unit holds every digit exactly once
C1_ReturnedGridIsSolution == Truthy(ret) => IsSolution(heap[ret.ref])

\* a success that came out of a branch of the search
C1_Witness == pc = "done" /\ Truthy(ret) /\ ret.ref # 1 /\ IsSolution(heap[ret.ref])

\* C2: solve returns a false value exactly when the clues have no completion,
\* and a returned grid agrees with every clue
C2_UnsatIffNoCompletion ==
    pc = "done" =>
        /\ Truthy(ret) <=> Satisfiable
        /\ Truthy(ret) =>
               \A s \in Range(boxes) : Len(Clues[s]) = 1 => heap[ret.ref][s] = Clues[s]

\* unsat found by the search, after a propagation that saw no contradiction
C2_Witness == pc = "done" /\ ~Truthy(ret) /\ ~Satisfiable /\ Len(heap) > Len(assignments) + 1

\* C3 as claimed: when no solution exists solve returns the value False
C3_UnsatReturnsFalse == (pc = "done" /\ ~Satisfiable) => ret = RetFalse

\* two boxes of one unit are fixed to the same digit in the input
Clash ==
    \E s, t \in Range(boxes) : SameUnit(s, t) /\ Len(Clues[s]) = 1 /\ Clues[s] = Clues[t]

\* C4: an input with two boxes of one unit fixed to the same digit is
\* reported unsat and never returned as a grid
C4_ClashIsUnsat == (pc = "done" /\ Clash) => ~Truthy(ret)

C4_Witness == pc = "done" /\ Clash /\ ret = RetFalse

\* the input has the length of a grid and only digits and '.'
WellFormed ==
    /\ Len(input) = Len(boxes)
    /\ \A k \in DOMAIN input : input[k] \in Range(S) \cup {"."}

\* number of characters of the input that are a digit or '.'
ValidCount == Cardinality({k \in DOMAIN input : input[k] \in Range(S) \cup {"."}})

\* nothing has been propagated, searched or logged
NothingDone == heap = << >> /\ assignments = << >> /\ stack = << >> /\ writes = << >>

\* C5 as claimed: parsing fails, before anything else happens, for every input
\* of another length than a grid's or with a character other than a digit or '.'
C5_RejectsMalformed ==
    (pc # "start" /\ ~WellFormed) => (pc = "raised" /\ NothingDone)

\* C5, amended: parsing fails, before anything else happens, exactly when the
\* number of characters that are a digit or '.' is not the number of boxes;
\* the other characters are skipped
C5_RejectsWrongCount ==
    pc # "start" =>
        /\ pc = "raised" <=> ValidCount # Len(boxes)
        /\ pc = "raised" => NothingDone

\* a string of the length of a grid is rejected for one foreign character
C5_Witness ==
    pc = "raised" /\ Len(input) = Len(boxes) /\ ValidCount = Len(boxes) - 1 /\ NothingDone

\* the values assign_value is tried with at a box: every digit, the empty
\* string and all digits
TrialValues == {<<c>> : c \in Range(S)} \cup {<< >>, S}

\* search is about to copy its grid and assign to the copy
AtChoicePoint == pc = "running" /\ top.pc = "loop"

\* C6 as claimed: assign_value leaves the grid passed in unchanged and returns
\* a distinct grid that differs from it at the assigned box only
C6_ValueSemantics ==
    AtChoicePoint =>
        \A box \in Range(boxes) : \A value \in TrialValues :
            LET v == top.values.ref
                s1 == assign_value(Store, v, box, value)
            IN /\ s1.heap[v] = heap[v]
               /\ s1.ret.ref # v
               /\ s1.heap[s1.ret.ref] = [heap[v] EXCEPT ![box] = value]

\* C6, amended: assign_value writes into the grid passed in and returns that
\* same grid; the grid changes at the assigned box only, where it holds the
\* given value; no other grid changes, and the snapshot appended when the
\* value has one digit is a new grid, equal to the updated one
C6_InPlace ==
    AtChoicePoint =>
        \A box \in Range(boxes) : \A value \in TrialValues :
            LET v == top.values.ref
                s1 == assign_value(Store, v, box, value)
                updated == [heap EXCEPT ![v] = [heap[v] EXCEPT ![box] = value]]
            IN /\ s1.ret = RetDict(v)
               /\ SubSeq(s1.heap, 1, Len(heap)) = updated
               /\ IF Len(value) = 1
                  THEN /\ s1.heap = Append(updated, updated[v])
                       /\ s1.assignments = Append(assignments, Len(heap) + 1)
                  ELSE /\ s1.heap = updated
                       /\ s1.assignments = assignments

\* search has assigned a digit to the copy it made: the copy holds the digit,
\* the grid it was copied from does not
C6_Witness ==
    /\ pc = "running" /\ Len(stack) > 1 /\ top.pc = "eliminate" /\ Len(writes) = 1
    /\ writes[1].ref = top.values.ref
    /\ heap[top.values.ref][writes[1].box] = writes[1].new
    /\ heap[stack[Len(stack) - 1].values.ref][writes[1].box] = writes[1].old
    /\ writes[1].old # writes[1].new

\* C7 as claimed: a write appends an event exactly when it takes a box from
\* unsolved to solved
C7_EventIffTransition ==
    \A k \in DOMAIN writes :
        writes[k].appended = 1 <=> (Len(writes[k].old) # 1 /\ Len(writes[k].new) = 1)

\* C8: a step only appends to the log, and every snapshot in the log keeps
\* its content
C8_LogAppendOnly ==
    [][/\ Len(assignments') >= Len(assignments)
       /\ SubSeq(assignments', 1, Len(assignments)) = assignments
       /\ [k \in DOMAIN assignments |-> heap'[assignments[k]]]
              = [k \in DOMAIN assignments |-> heap[assignments[k]]]]_vars

\* the grid of the first snapshot has been written to since
C8_Witness ==
    /\ Len(assignments) > 1
    /\ writes # << >>
    /\ heap[assignments[1]] # heap[writes[1].ref]
    /\ \E k \in DOMAIN writes : writes[k].old # writes[k].new

\* C9 as claimed: a second run of solve on the same input, in the same
\* process or in a new one, with whatever order of the peers, ends with the
\* result and the log of the first
C9_SameResultAndLog ==
    (pc = "done" /\ run = 2) =>
        /\ Outcome.kind = first.kind
        /\ Outcome.grid = first.grid
        /\ Outcome.log = first.log

\* C10 as claimed: reduce_puzzle applied to the grid it returned returns a
\* grid equal to it in every box
C10_Idempotent ==
    pc = "twice" => (Truthy(ret) /\ heap[ret.ref] = first.grid)

\* C10, amended: reduce_puzzle applied to the grid g it returned fails or
\* returns a grid that has, in every box, a part of the candidates g has there
\* and, in every box solved in g, the digit of g
C10_SecondOnlyRemoves ==
    (pc = "twice" /\ Truthy(ret)) =>
        \A s \in Range(boxes) :
            /\ Digits(heap[ret.ref][s]) \subseteq Digits(first.grid[s])
            /\ Len(first.grid[s]) = 1 => heap[ret.ref][s] = first.grid[s]

\* the second application has removed candidates from the grid of the first
C10_Witness ==
    /\ pc = "twice" /\ Truthy(ret)
    /\ heap[ret.ref] # first.grid
    /\ \A s \in Range(boxes) : Digits(heap[ret.ref][s]) \subseteq Digits(first.grid[s])

\* C11: every write of the last step (by eliminate, naked_twins, only_choice
\* or the assignment of search to its copy) leaves in the box a part of the
\* candidates the box had before the write
C11_WritesOnlyRemove ==
    \A k \in DOMAIN writes : Digits(writes[k].new) \subseteq Digits(writes[k].old)

\* only_choice has written a digit into a box that had several candidates
C11_Witness ==
    /\ pc = "running" /\ top.pc = "stalled"
    /\ \E k \in DOMAIN writes :
          /\ Len(writes[k].new) = 1 /\ Len(writes[k].old) > 1
          /\ Digits(writes[k].new) \subseteq Digits(writes[k].old)

\* the twin pairs of a unit in grid d: the values of two digits held by
\* exactly two boxes of the unit
TwinSets(d, unit) ==
    {d[b] : b \in {c \in Range(unit) :
                      /\ Len(d[c]) = 2
                      /\ Cardinality({e \in Range(unit) : d[e] = d[c]}) = 2}}

TwinCells(d, unit) == {b \in Range(unit) : d[b] \in TwinSets(d, unit)}

TwinDigits(d, unit) == UNION {Digits(v) : v \in TwinSets(d, unit)}

\* no two twin pairs of the unit have a digit in common
PairsDisjoint(d, unit) ==
    \A v, w \in TwinSets(d, unit) : v # w => Digits(v) \cap Digits(w) = {}

\* naked_twins is about to run on the grid of the innermost search
AtNakedTwins == pc = "running" /\ top.pc = "naked_twins"

\* C12 as claimed: in the grid d a unit is examined in, the boxes of the unit
\* outside the twin pairs lose exactly the digits of the twin pairs, and every
\* other box, the twins included, is in the resulting grid a as it was in d
TwinsAsClaimed(d, a, unit) ==
    a = [b \in DOMAIN d |->
            IF b \in Range(unit) \ TwinCells(d, unit)
            THEN SelectSeq(d[b], LAMBDA c : c \notin TwinDigits(d, unit))
            ELSE d[b]]

C12_TwinsUntouched ==
    AtNakedTwins =>
        \A n \in 1..Len(unitlist) :
            LET v == top.values.ref
            IN TwinsAsClaimed(twins_upto(Store, v, n - 1).heap[v],
                              twins_upto(Store, v, n).heap[v], unitlist[n])

\* C12, amended: only digits of the twin pairs of the unit are removed, and
\* only from boxes of the unit.  When no two twin pairs of the unit share a
\* digit, the twins keep their candidates and every other box of the unit ends
\* without any digit of a twin pair, or with exactly the candidates of a twin
\* pair.  When two twin pairs share a digit, a box of a twin pair loses it.
TwinsAsCoded(d, a, unit) ==
    /\ \A b \in DOMAIN d :
          /\ Digits(a[b]) \subseteq Digits(d[b])
          /\ Digits(d[b]) \ Digits(a[b]) \subseteq
                 (IF b \in Range(unit) THEN TwinDigits(d, unit) ELSE {})
    /\ IF PairsDisjoint(d, unit)
       THEN \A b \in Range(unit) :
               IF b \in TwinCells(d, unit) THEN a[b] = d[b]
               ELSE \/ Digits(a[b]) \cap TwinDigits(d, unit) = {}
                    \/ a[b] \in TwinSets(d, unit)
       ELSE \E b \in TwinCells(d, unit) : a[b] # d[b]

C12_TwinsRemoveTwinDigits ==
    AtNakedTwins =>
        LET v == top.values.ref
        IN /\ \A n \in 1..Len(unitlist) :
                 TwinsAsCoded(twins_upto(Store, v, n - 1).heap[v],
                              twins_upto(Store, v, n).heap[v], unitlist[n])
           /\ twins_upto(Store, v, Len(unitlist)).heap = naked_twins(Store, v).heap

\* a unit is examined with two twin pairs that share a digit, and a box of a
\* twin pair loses a digit
C12_Witness ==
    /\ AtNakedTwins
    /\ \E n \in 1..Len(unitlist) :
          LET v == top.values.ref
              d == twins_upto(Store, v, n - 1).heap[v]
              a == twins_upto(Store, v, n).heap[v]
          IN /\ ~PairsDisjoint(d, unitlist[n])
             /\ \E b \in TwinCells(d, unitlist[n]) : a[b] # d[b]

\* the sequence without its k-th element
Without(seq, k) == SubSeq(seq, 1, k - 1) \o SubSeq(seq, k + 1, Len(seq))

\* every order of the elements of a sequence
RECURSIVE Perms(_)
Perms(seq) ==
    IF Len(seq) = 0 THEN {<< >>}
    ELSE UNION {{<<seq[k]>> \o p : p \in Perms(Without(seq, k))} : k \in 1..Len(seq)}

\* the orders the solved boxes are processed in: all of them for at most
\* MaxPermuted boxes; otherwise the reverse order and the orders that take
\* one box first
Orders(seq) ==
    IF Len(seq) <= MaxPermuted THEN Perms(seq)
    ELSE {[k \in 1..Len(seq) |-> seq[Len(seq) + 1 - k]]}
         \cup {<<seq[k]>> \o Without(seq, k) : k \in 1..Len(seq)}

\* eliminate is about to run on the grid of the innermost search
AtEliminate == pc = "running" /\ top.pc = "eliminate"

\* the boxes solved at the start of the pass, in the order of the code
SolvedAtStart == SelectSeq(boxes, LAMBDA box : Len(heap[top.values.ref][box]) = 1)

\* the grid eliminate leaves when it takes the solved boxes in order p
EliminatedIn(p) ==
    eliminate_boxes(Store, top.values.ref, p, 1, seed).heap[top.values.ref]

\* two solved boxes of one unit hold the same digit
SolvedPeersClash(d) ==
    \E s \in Range(boxes) : \E t \in related[s] : Len(d[s]) = 1 /\ d[s] = d[t]

\* C13 as claimed: eliminate leaves the same grid for every order of the
\* boxes solved at the start of the pass
C13_EliminateConfluent ==
    AtEliminate =>
        \A p \in Orders(SolvedAtStart) :
            EliminatedIn(p) = eliminate(Store, top.values.ref, seed).heap[top.values.ref]

\* C13, amended: eliminate leaves the same grid for every order of the solved
\* boxes when no two solved boxes of one unit hold the same digit; when two
\* do, every order leaves a grid with an empty box
C13_ConfluentWithoutClash ==
    AtEliminate =>
        IF SolvedPeersClash(heap[top.values.ref])
        THEN \A p \in Orders(SolvedAtStart) : empty_count(EliminatedIn(p)) # 0
        ELSE \A p \in Orders(SolvedAtStart) :
                EliminatedIn(p) = eliminate(Store, top.values.ref, seed).heap[top.values.ref]

\* two solved boxes of one unit hold the same digit, and two orders leave
\* different grids
C13_Witness ==
    /\ AtEliminate
    /\ SolvedPeersClash(heap[top.values.ref])
    /\ \E p, q \in Orders(SolvedAtStart) : EliminatedIn(p) # EliminatedIn(q)

\* no solved box of d has its digit among the candidates of a peer
ArcConsistent(d) ==
    \A s \in Range(boxes) :
        Len(d[s]) = 1 => \A t \in peers[s] : d[s][1] \notin Digits(d[t])

\* reduce_puzzle has returned a grid to the innermost search
ReducedToGrid == pc = "running" /\ top.pc = "reduced" /\ Truthy(top.values)

\* C14: a grid returned by reduce_puzzle has no solved box whose digit is
\* among the candidates of one of its peers
C14_ReducedArcConsistent == ReducedToGrid => ArcConsistent(heap[top.values.ref])

\* reduce_puzzle returns a grid in which propagation has solved boxes that
\* were no clues, and which is not yet solved
C14_Witness ==
    /\ ReducedToGrid
    /\ ArcConsistent(heap[top.values.ref])
    /\ ~all_solved(heap[top.values.ref])
    /\ Len(stack) = 1
    /\ \E s \in Range(boxes) : Len(heap[top.values.ref][s]) = 1 /\ Len(Clues[s]) # 1

\* C15: every call of solve ends: with a value returned for a string that
\* parses, with the failed assertion of grid_values otherwise
C15_SolveTerminates ==
    <>(IF grid_ok(input) THEN pc = "done" ELSE pc = "raised")

\* solve has returned after a search that made at least two copies of a grid
C15_Witness ==
    /\ pc = "done"
    /\ grid_ok(input)
    /\ Len(heap) >= Len(assignments) + 3

\* the units are three per row letter (a row, a column, a square) and two
\* diagonals, each of N distinct boxes
UnitsWellFormed ==
    /\ Len(unitlist) = 3 * N + 2
    /\ \A u \in 1..Len(unitlist) :
          /\ Len(unitlist[u]) = N
          /\ Cardinality(Range(unitlist[u])) = N
          /\ Range(unitlist[u]) \subseteq Range(boxes)

\* the module is loaded and its topology (lines 83-92) built: so it is in
\* every state of a call of solve
Loaded == pc \in {"start", "running", "done", "raised"}

\* C16 as claimed: 3N + 2 units (29 on the 9x9 board) of N distinct boxes
\* each, and every box in exactly 4 units
C16_FourUnitsPerBox ==
    Loaded =>
    /\ UnitsWellFormed
    /\ \A s \in Range(boxes) : Len(units[s]) = 4

\* C16, amended: 3N + 2 units of N distinct boxes each; a box is in its row,
\* its column, its square and the diagonals through it: in 3 units off the
\* diagonals, and in one more for each diagonal it lies on
C16_ThreeUnitsAndDiagonals ==
    Loaded =>
    /\ UnitsWellFormed
    /\ \A s \in Range(boxes) :
          /\ Len(units[s]) = 3 + Cardinality({k \in 1..Len(diagonals_u) :
                                                 s \in Range(diagonals_u[k])})
          /\ Range(units[s]) = {unitlist[u] : u \in {w \in 1..Len(unitlist) :
                                                        s \in Range(unitlist[w])}}
    /\ \E s \in Range(boxes) : Len(units[s]) = 3
    /\ \E s \in Range(boxes) : Len(units[s]) = 4

\* eliminate has removed the digit of a solved box that lies on no diagonal,
\* and is in 3 units, from every peer of the box
C16_Witness ==
    /\ pc = "running" /\ top.pc = "naked_twins"
    /\ \E s \in Range(boxes) :
          /\ Len(units[s]) = 3
          /\ Len(heap[top.values.ref][s]) = 1
          /\ peers[s] \subseteq {writes[k].box : k \in DOMAIN writes}
          /\ \A t \in peers[s] :
                heap[top.values.ref][s][1] \notin Digits(heap[top.values.ref][t])

\* C17: from the moment a search has chosen its branching box until it
\* returns, no step changes its grid: not the copy and the assignment of a
\* branch, and no step of the calls made on the copies.  A failed branch so
\* leaves the grid what it was before the branch was made.
C17_ParentGridUntouched ==
    [][\A k \in 1..Len(stack) :
          stack[k].pc \in {"loop", "attempt"} =>
              heap'[stack[k].values.ref] = heap[stack[k].values.ref]]_vars

\* a call on a copy has returned failure after writing to the copy, and the
\* branching box of the caller still has the candidates the digits are taken
\* from
C17_Witness ==
    /\ pc = "running" /\ top.pc = "attempt" /\ ~Truthy(ret)
    /\ heap[top.values.ref][top.s] = top.vs
    /\ top.i < Len(top.vs)
    /\ \E r \in 1..Len(heap) :
          /\ r # top.values.ref
          /\ heap[r][top.s] = <<top.vs[top.i]>>
          /\ empty_count(heap[r]) # 0

\* some box of d has no candidate left
HasEmpty(d) == \E s \in Range(boxes) : d[s] = << >>

\* a box that a write of the last step emptied is empty after the step
EmptiedStaysEmpty ==
    \A k \in DOMAIN writes :
        writes[k].new = << >> => heap[writes[k].ref][writes[k].box] = << >>

\* a rule of the current pass of reduce_puzzle has left a box empty
Contradicted ==
    /\ pc = "running"
    /\ top.pc \in {"naked_twins", "only_choice", "stalled"}
    /\ HasEmpty(heap[top.values.ref])

\* C18: a box emptied during a rule is empty when the rule ends; once a box
\* is empty in a pass, every later rule of the pass leaves a box empty and
\* the pass ends with reduce_puzzle returning False
C18_ContradictionFails ==
    [][/\ EmptiedStaysEmpty'
       /\ Contradicted =>
             /\ Len(stack') = Len(stack)
             /\ \/ /\ stack'[Len(stack)].pc \in {"only_choice", "stalled"}
                   /\ HasEmpty(heap'[top.values.ref])
                \/ /\ stack'[Len(stack)].pc = "reduced"
                   /\ stack'[Len(stack)].values = RetFalse]_vars

\* a box is empty after naked_twins, with eliminate having emptied it or
\* naked_twins itself, and only_choice is still to run in the pass
C18_Witness ==
    /\ Contradicted
    /\ top.pc = "only_choice"
    /\ EmptiedStaysEmpty

\* the boxes before s in row-major order (A1, A2, ..., then B1, ...)
BoxesBefore(s) == {boxes[k] : k \in {j \in 1..Len(boxes) : \E m \in (j + 1)..Len(boxes) : boxes[m] = s}}

\* search has chosen its branching box and not yet tried a digit
JustChosen == pc = "running" /\ top.pc = "loop" /\ top.i = 1

\* C19: the branching box is unsolved, no unsolved box has fewer candidates,
\* and no box before it in row-major order has as few
C19_BranchOnSmallestFirst ==
    JustChosen =>
        LET d == heap[top.values.ref]
        IN /\ Len(d[top.s]) > 1
           /\ top.vs = d[top.s]
           /\ \A t \in Range(boxes) : Len(d[t]) > 1 => Len(d[top.s]) <= Len(d[t])
           /\ \A t \in BoxesBefore(top.s) : Len(d[t]) # Len(d[top.s])

\* the branching box comes after an unsolved box with more candidates, and
\* before another box with as few candidates as it has
C19_Witness ==
    /\ JustChosen
    /\ LET d == heap[top.values.ref]
       IN /\ \E t \in BoxesBefore(top.s) : Len(d[t]) > Len(d[top.s])
          /\ \E t \in Range(boxes) \ (BoxesBefore(top.s) \cup {top.s}) :
                Len(d[t]) = Len(d[top.s])

\* the number a digit character stands for
NumericValue(c) == CHOOSE n \in 1..9 : <<"1", "2", "3", "4", "5", "6", "7", "8", "9">>[n] = c

\* a recursive call of search has returned a grid and solve has not yet returned
Succeeded == pc = "running" /\ Truthy(ret)

\* the step tries a digit: search calls itself on a new grid
TriesDigit == pc = "running" /\ Len(stack') = Len(stack) + 1

\* C20: the k-th digit a choice point tries is the k-th smallest candidate of
\* its box; once a recursive call has succeeded every step returns that
\* call's result one level up, no grid changes and no event is appended
C20_IncreasingFirstSuccess ==
    [][/\ TriesDigit =>
              LET cell  == heap[top.values.ref][top.s]
                  tried == heap'[stack'[Len(stack')].values.ref][top.s]
              IN /\ Len(tried) = 1
                 /\ tried[1] \in Digits(cell)
                 /\ Cardinality({c \in Digits(cell) :
                        NumericValue(c) < NumericValue(tried[1])}) = top.i - 1
                 /\ stack'[Len(stack)].i = top.i
       /\ Succeeded =>
              /\ stack' = SubSeq(stack, 1, Len(stack) - 1)
              /\ ret' = ret
              /\ heap' = heap
              /\ assignments' = assignments]_vars

\* a call nested in two choice points has succeeded, one of them on a digit
\* tried after a failure, and one of them has digits left to try
C20_Witness ==
    /\ Succeeded
    /\ Len(stack) >= 2
    /\ \E k \in 1..Len(stack) : stack[k].i >= 2
    /\ \E k \in 1..Len(stack) : stack[k].i < Len(stack[k].vs)

\* the number of boxes of d holding exactly one digit
SolvedCells(d) == Cardinality({s \in Range(boxes) : Len(d[s]) = 1})

\* C21: the nested calls of search are never more than the boxes of the
\* board: a nested call starts from a grid with one more solved box than the
\* grid of its caller, which at its choice point has an unsolved box, so the
\* k-th activation waits on a grid with at least k - 1 solved boxes
C21_DepthBounded ==
    [][/\ Len(stack') <= Len(boxes)
       /\ \A k \in 1..(Len(stack') - 1) :
              /\ stack'[k].pc = "attempt"
              /\ SolvedCells(heap'[stack'[k].values.ref]) >= k - 1
              /\ SolvedCells(heap'[stack'[k].values.ref]) < Len(boxes)
       /\ (pc = "running" /\ Len(stack') = Len(stack) + 1) =>
              SolvedCells(heap'[stack'[Len(stack')].values.ref])
                  > SolvedCells(heap[top.values.ref])]_vars

\* three nested calls, the innermost not yet started on its grid
C21_Witness ==
    /\ pc = "running"
    /\ Len(stack) >= 3
    /\ top.pc = "eliminate"
    /\ SolvedCells(heap[top.values.ref]) > SolvedCells(heap[stack[Len(stack) - 1].values.ref])

\* the positions of the state map holding one of the fluents
PositionsOf(fluents) ==
    {idx \in 1..Len(searched.state_map) : searched.state_map[idx] \in Range(fluents)}

\* C22: after result(state, action) for an action of actions(state), the
\* fluents the action adds are true, the fluents it removes are false, every
\* other fluent of the state map is as it was, and each fluent of the state
\* map is either positive or negative in the state built, never both or neither
C22_ResultFrameEffect ==
    [][pc = "planning" =>
          \A state_map \in {searched.state_map} :
          \A added \in {PositionsOf(applied'.effect_add)} :
          \A removed \in {PositionsOf(applied'.effect_rem)} :
          \A built \in {new_state(searched, state_TF, applied')} :
          \A positive \in {Range(built.pos)} :
          \A negative \in {Range(built.neg)} :
             /\ Cardinality(added) = Len(applied'.effect_add)
             /\ Cardinality(removed) = Len(applied'.effect_rem)
             /\ Len(state_TF') = Len(state_map)
             /\ \A idx \in 1..Len(state_TF') :
                    /\ state_TF'[idx] \in {"T", "F"}
                    /\ idx \in added => state_TF'[idx] = "T"
                    /\ idx \in removed => state_TF'[idx] = "F"
                    /\ idx \notin added \cup removed => state_TF'[idx] = state_TF[idx]
                    /\ (state_map[idx] \in positive) # (state_map[idx] \in negative)
                    /\ (state_TF'[idx] = "T") = (state_map[idx] \in positive)]_vars

\* a cargo has been unloaded and with it the goal of the problem is reached
C22_Witness ==
    /\ pc = "planning"
    /\ applied.name # << >>
    /\ applied.name[1] = "Unload"
    /\ \A idx \in PositionsOf(searched.goal) : state_TF[idx] = "T"
    /\ \A idx \in PositionsOf(applied.effect_rem) : state_TF[idx] = "F"

=============================================================================
